---- MODULE Spec2Model ----
(***************************************************************************)
(* Search, selection and highlight subsystem of script.js (the selection   *)
(* controller registered by the DOMContentLoaded block at lines 640-1363). *)
(*                                                                         *)
(* Strings are sequences of one-character strings, so that toLowerCase,    *)
(* trim and includes are computed and not assumed.  Property values are    *)
(* tagged: a string, a number, null, or undefined (the key is absent).     *)
(***************************************************************************)
EXTENDS Integers, Sequences, FiniteSets, TLC

\* ------------------------------------------------------------------ bounds
\* longest Feature Store the model lets the load signals build
MaxStore == 3
\* most apply-highlight continuations waiting for one moveend signal
MaxPending == 2

\* ------------------------------------------------------- strings and values
UpperChars == <<"A", "B", "C", "D", "E", "F", "G", "H", "I", "J", "K", "L", "M",
                "N", "O", "P", "Q", "R", "S", "T", "U", "V", "W", "X", "Y", "Z",
                "Á", "É", "Í", "Ó", "Ú", "Ñ">>
LowerChars == <<"a", "b", "c", "d", "e", "f", "g", "h", "i", "j", "k", "l", "m",
                "n", "o", "p", "q", "r", "s", "t", "u", "v", "w", "x", "y", "z",
                "á", "é", "í", "ó", "ú", "ñ">>
Digits == {"0", "1", "2", "3", "4", "5", "6", "7", "8", "9"}

\* the case mappings as tables: upper to lower and lower to upper
RECURSIVE CharTable(_, _, _)
CharTable(from, to, n) ==
    IF n = 1 THEN from[1] :> to[1]
    ELSE CharTable(from, to, n - 1) @@ (from[n] :> to[n])
LowerOf == CharTable(UpperChars, LowerChars, Len(UpperChars))
UpperOf == CharTable(LowerChars, UpperChars, Len(LowerChars))

\* String.prototype.toLowerCase on one character
LowerChar(c) == IF c \in DOMAIN LowerOf THEN LowerOf[c] ELSE c

\* String.prototype.toUpperCase on one character
UpperChar(c) == IF c \in DOMAIN UpperOf THEN UpperOf[c] ELSE c

\* the regular expression class \w: ASCII letters, digits and underscore
IsWordChar(c) ==
    \/ \E i \in 1..26 : UpperChars[i] = c \/ LowerChars[i] = c
    \/ c \in Digits
    \/ c = "_"

\* String.prototype.toLowerCase
RECURSIVE ToLower(_)
ToLower(s) ==
    IF s = << >> THEN << >>
    ELSE << LowerChar(Head(s)) >> \o ToLower(Tail(s))

\* String.prototype.includes
Includes(s, q) ==
    \E i \in 0..(Len(s) - Len(q)) : SubSeq(s, i + 1, i + Len(q)) = q

\* String.prototype.startsWith
StartsWith(s, q) == Len(q) <= Len(s) /\ SubSeq(s, 1, Len(q)) = q

IsSpace(c) == c = " "

\* String.prototype.trim
Trim(s) ==
    IF \A i \in 1..Len(s) : IsSpace(s[i]) THEN <<>>
    ELSE LET first == CHOOSE i \in 1..Len(s) :
                          ~IsSpace(s[i]) /\ \A j \in 1..(i - 1) : IsSpace(s[j])
             last  == CHOOSE i \in 1..Len(s) :
                          ~IsSpace(s[i]) /\ \A j \in (i + 1)..Len(s) : IsSpace(s[j])
         IN  SubSeq(s, first, last)

Str(s) == [t |-> "str", s |-> s, n |-> 0]
Num(n) == [t |-> "num", s |-> << >>, n |-> n]
Null == [t |-> "null", s |-> << >>, n |-> 0]
Undefined == [t |-> "undef", s |-> << >>, n |-> 0]

\* JavaScript truthiness of a property value
Truthy(v) ==
    CASE v.t = "str" -> Len(v.s) > 0
      [] v.t = "num" -> v.n # 0
      [] OTHER -> FALSE

\* a || b
OrElse(a, b) == IF Truthy(a) THEN a ELSE b

\* ----------------------------------------------------------- property keys
K_name      == <<"n", "a", "m", "e">>
K_nombre    == <<"n", "o", "m", "b", "r", "e">>
K_type      == <<"t", "y", "p", "e">>
K_location  == <<"l", "o", "c", "a", "t", "i", "o", "n">>
K_ubicacion == <<"u", "b", "i", "c", "a", "c", "i", "ó", "n">>
K_address   == <<"a", "d", "d", "r", "e", "s", "s">>
K_Direccion == <<"D", "i", "r", "e", "c", "c", "i", "ó", "n">>
K_comuna    == <<"c", "o", "m", "u", "n", "a">>
K_Empresa   == <<"E", "m", "p", "r", "e", "s", "a">>
K_operator  == <<"o", "p", "e", "r", "a", "t", "o", "r">>
K_operador  == <<"o", "p", "e", "r", "a", "d", "o", "r">>
K_id        == <<"i", "d">>

\* feature.get(key) on a property bag, a sequence of [k, v] pairs
FeatureGet(bag, key) ==
    IF \E i \in 1..Len(bag) : bag[i].k = key
    THEN bag[CHOOSE i \in 1..Len(bag) : bag[i].k = key].v
    ELSE Undefined

\* ------------------------------------------------------ matching predicates
\* a field test without the guard "v &&"
FieldTest_noGuard(v, term) ==
    IF v.t # "str" THEN "throw"
    ELSE IF Includes(ToLower(v.s), term) THEN "true"
    ELSE "false"

\* v && v.toLowerCase().includes(term): "throw" is the TypeError raised when
\* v is truthy and has no toLowerCase method (a non-zero number)
FieldTest(v, term) ==
    IF ~Truthy(v) THEN "false"
    ELSE IF v.t # "str" THEN "throw"
    ELSE IF Includes(ToLower(v.s), term) THEN "true"
    ELSE "false"

\* t1 || t2 || ... over the tests of fields[i], fields[i + 1], ...,
\* evaluated left to right with short circuit
RECURSIVE OrChain(_, _, _)
OrChain(fields, term, i) ==
    IF i > Len(fields) THEN "false"
    ELSE LET test == FieldTest(fields[i], term)
         IN  IF test # "false" THEN test ELSE OrChain(fields, term, i + 1)

\* the fields performSearch reads from one feature, in the order it tests them
SearchFields(bag) ==
    << OrElse(FeatureGet(bag, K_name), FeatureGet(bag, K_nombre)),
       OrElse(FeatureGet(bag, K_location), FeatureGet(bag, K_ubicacion)),
       OrElse(FeatureGet(bag, K_address), FeatureGet(bag, K_Direccion)),
       FeatureGet(bag, K_comuna),
       FeatureGet(bag, K_Empresa),
       OrElse(FeatureGet(bag, K_operator), FeatureGet(bag, K_operador)) >>

\* the condition of performSearch's inner loop on one feature
SearchMatch(bag, searchTerm) ==
    OrChain(SearchFields(bag), ToLower(searchTerm), 1)

\* a keyup filter that reads the fields performSearch reads
SuggestFields_noType(bag) ==
    << OrElse(FeatureGet(bag, K_name), FeatureGet(bag, K_nombre)),
       OrElse(FeatureGet(bag, K_location), FeatureGet(bag, K_ubicacion)),
       OrElse(FeatureGet(bag, K_address), FeatureGet(bag, K_Direccion)),
       FeatureGet(bag, K_comuna),
       FeatureGet(bag, K_Empresa),
       OrElse(FeatureGet(bag, K_operator), FeatureGet(bag, K_operador)) >>

\* the fields the keyup filter reads from one feature, in the order it tests them
SuggestFields(bag) ==
    << OrElse(FeatureGet(bag, K_name), FeatureGet(bag, K_nombre)),
       FeatureGet(bag, K_type),
       OrElse(FeatureGet(bag, K_location), FeatureGet(bag, K_ubicacion)),
       OrElse(FeatureGet(bag, K_address), FeatureGet(bag, K_Direccion)),
       FeatureGet(bag, K_comuna),
       FeatureGet(bag, K_Empresa),
       OrElse(FeatureGet(bag, K_operator), FeatureGet(bag, K_operador)) >>

\* the callback of allFeatures.filter in the keyup handler on one feature
SuggestMatch(bag, searchTerm) ==
    OrChain(SuggestFields(bag), searchTerm, 1)

\* ------------------------------------------------------------- Formatter
\* translationDict: lowercased property key -> display label
translationDict ==
    << [k |-> <<"n", "a", "m", "e">>,
        label |-> <<"N", "o", "m", "b", "r", "e">>],
       [k |-> <<"t", "y", "p", "e">>,
        label |-> <<"T", "i", "p", "o">>],
       [k |-> <<"e", "m", "p", "r", "e", "s", "a">>,
        label |-> <<"E", "m", "p", "r", "e", "s", "a">>],
       [k |-> <<"s", "h", "a", "p", "e">>,
        label |-> <<"F", "o", "r", "m", "a">>],
       [k |-> <<"c", "o", "l", "o", "r">>,
        label |-> <<"C", "o", "l", "o", "r">>],
       [k |-> <<"s", "i", "z", "e">>,
        label |-> <<"T", "a", "m", "a", "ñ", "o">>],
       [k |-> <<"a", "d", "d", "r", "e", "s", "s">>,
        label |-> <<"D", "i", "r", "e", "c", "c", "i", "ó", "n">>],
       [k |-> <<"p", "u", "e">>,
        label |-> <<"E", "f", "i", "c", "i", "e", "n", "c", "i", "a", " ", "E", "n", "e", "r", "g", "é", "t", "i", "c", "a", " ", "(", "P", "U", "E", ")">>],
       [k |-> <<"w", "u", "e">>,
        label |-> <<"E", "f", "i", "c", "i", "e", "n", "c", "i", "a", " ", "H", "í", "d", "r", "i", "c", "a", " ", "(", "W", "U", "E", ")">>],
       [k |-> <<"d", "i", "m", "e", "n", "s", "i", "o", "n", "e", "s">>,
        label |-> <<"D", "i", "m", "e", "n", "s", "i", "o", "n", "e", "s", " ", "F", "í", "s", "i", "c", "a", "s">>],
       [k |-> <<"t", "e", "c", "n", "o", "l", "o", "g", "i", "a", "s">>,
        label |-> <<"T", "e", "c", "n", "o", "l", "o", "g", "í", "a", "s", " ", "E", "m", "p", "l", "e", "a", "d", "a", "s">>],
       [k |-> <<"s", "i", "s", "t", "e", "m", "a", "s", "_", "r", "e", "f", "r", "i", "g", "e", "r", "a", "c", "i", "o", "n">>,
        label |-> <<"S", "i", "s", "t", "e", "m", "a", "s", " ", "d", "e", " ", "R", "e", "f", "r", "i", "g", "e", "r", "a", "c", "i", "ó", "n">>],
       [k |-> <<"c", "o", "n", "s", "u", "m", "o", "_", "a", "g", "u", "a">>,
        label |-> <<"C", "o", "n", "s", "u", "m", "o", " ", "d", "e", " ", "A", "g", "u", "a">>],
       [k |-> <<"u", "s", "o", "_", "s", "u", "e", "l", "o">>,
        label |-> <<"U", "s", "o", " ", "d", "e", " ", "S", "u", "e", "l", "o">>],
       [k |-> <<"e", "m", "i", "s", "i", "o", "n", "e", "s">>,
        label |-> <<"D", "a", "t", "o", "s", " ", "s", "o", "b", "r", "e", " ", "E", "m", "i", "s", "i", "o", "n", "e", "s">>],
       [k |-> <<"s", "o", "u", "r", "c", "e">>,
        label |-> <<"F", "u", "e", "n", "t", "e">>],
       [k |-> <<"r", "e", "f", "e", "r", "e", "n", "c", "e", "_", "l", "i", "n", "k">>,
        label |-> <<"E", "n", "l", "a", "c", "e", " ", "d", "e", " ", "R", "e", "f", "e", "r", "e", "n", "c", "i", "a">>],
       [k |-> <<"l", "e", "n", "g", "t", "h", "_", "k", "m">>,
        label |-> <<"L", "o", "n", "g", "i", "t", "u", "d", " ", "(", "k", "m", ")">>],
       [k |-> <<"i", "m", "a", "g", "e">>,
        label |-> <<"I", "m", "a", "g", "e", "n">>],
       [k |-> <<"w", "i", "d", "t", "h">>,
        label |-> <<"A", "n", "c", "h", "o">>],
       [k |-> <<"a", "ñ", "o">>,
        label |-> <<"A", "ñ", "o">>],
       [k |-> <<"c", "o", "n", "s", "u", "l", "t", "o", "r", "a">>,
        label |-> <<"C", "o", "n", "s", "u", "l", "t", "o", "r", "a">>],
       [k |-> <<"s", "u", "p", "e", "r", "f", "i", "c", "i", "e", "_", "p", "r", "e", "d", "i", "a", "l">>,
        label |-> <<"S", "u", "p", "e", "r", "f", "i", "c", "i", "e", " ", "P", "r", "e", "d", "i", "a", "l">>],
       [k |-> <<"s", "u", "p", "e", "r", "f", "i", "c", "i", "e", "_", "c", "o", "n", "s", "t", "r", "u", "i", "d", "a">>,
        label |-> <<"S", "u", "p", "e", "r", "f", "i", "c", "i", "e", " ", "C", "o", "n", "s", "t", "r", "u", "i", "d", "a">>],
       [k |-> <<"i", "n", "v", "e", "r", "s", "i", "o", "n">>,
        label |-> <<"I", "n", "v", "e", "r", "s", "i", "ó", "n">>],
       [k |-> <<"t", "i", "p", "o", "_", "d", "e", "_", "r", "e", "f", "r", "i", "g", "e", "r", "a", "c", "i", "o", "n">>,
        label |-> <<"T", "i", "p", "o", " ", "d", "e", " ", "R", "e", "f", "r", "i", "g", "e", "r", "a", "c", "i", "ó", "n">>],
       [k |-> <<"e", "v", "a", "l", "u", "a", "c", "i", "o", "n", "_", "a", "m", "b", "i", "e", "n", "t", "a", "l">>,
        label |-> <<"E", "v", "a", "l", "u", "a", "c", "i", "ó", "n", " ", "A", "m", "b", "i", "e", "n", "t", "a", "l">>],
       [k |-> <<"c", "o", "m", "u", "n", "a">>,
        label |-> <<"C", "o", "m", "u", "n", "a">>] >>

excludedKeys ==
    { <<"n", "a", "m", "e">>,
      <<"t", "y", "p", "e">>,
      <<"s", "h", "a", "p", "e">>,
      <<"c", "o", "l", "o", "r">>,
      <<"s", "i", "z", "e">>,
      <<"o", "p", "a", "c", "i", "t", "y">>,
      <<"g", "e", "o", "m", "e", "t", "r", "y">>,
      <<"w", "i", "d", "t", "h">>,
      <<"l", "i", "n", "e", "D", "a", "s", "h">>,
      <<"i", "d">> }

K_image == <<"i", "m", "a", "g", "e">>
K_reference_link == <<"r", "e", "f", "e", "r", "e", "n", "c", "e", "_", "l", "i", "n", "k">>
TitleFallback == <<"I", "n", "f", "o", "r", "m", "a", "c", "i", "ó", "n", " ", "d", "e", "l", " ", "E", "l", "e", "m", "e", "n", "t", "o">>
SubtitleFallback == <<"E", "l", "e", "m", "e", "n", "t", "o">>
LinkText == <<"V", "e", "r", " ", "R", "e", "f", "e", "r", "e", "n", "c", "i", "a">>
HttpPrefix == <<"h", "t", "t", "p">>

\* translationDict[lowercaseKey] || key.replace(/_/g, ' ').replace(/\b\w/g, c => c.toUpperCase())
TranslatedKey(key) ==
    LET lowercaseKey == ToLower(key)
        spaced == [i \in 1..Len(key) |-> IF key[i] = "_" THEN " " ELSE key[i]]
    IN  IF \E i \in 1..Len(translationDict) : translationDict[i].k = lowercaseKey
        THEN translationDict[CHOOSE i \in 1..Len(translationDict) :
                                 translationDict[i].k = lowercaseKey].label
        ELSE [i \in 1..Len(spaced) |->
                 IF IsWordChar(spaced[i]) /\ (i = 1 \/ ~IsWordChar(spaced[i - 1]))
                 THEN UpperChar(spaced[i]) ELSE spaced[i]]

\* an iteration that emits an image element for any truthy image value
FormatProperty_anyImage(p, name) ==
    LET lowercaseKey == ToLower(p.k)
        value == p.v
    IN  IF lowercaseKey \notin excludedKeys /\ Truthy(value)
        THEN IF lowercaseKey = K_image
             THEN << [el |-> "img", src |-> value, alt |-> name] >>
             ELSE IF lowercaseKey = K_reference_link
             THEN << [el |-> "a", label |-> TranslatedKey(p.k), href |-> value,
                      text |-> LinkText] >>
             ELSE << [el |-> "item", label |-> TranslatedKey(p.k), value |-> value] >>
        ELSE << >>

\* what one iteration of the for-in loop appends to content for the pair p
FormatProperty(p, name) ==
    LET lowercaseKey == ToLower(p.k)
        value == p.v
    IN  IF lowercaseKey \notin excludedKeys /\ Truthy(value)
        THEN IF lowercaseKey = K_image
             THEN IF value.t = "str" /\ StartsWith(value.s, HttpPrefix)
                  THEN << [el |-> "img", src |-> value, alt |-> name] >>
                  ELSE << >>
             ELSE IF lowercaseKey = K_reference_link
             THEN << [el |-> "a", label |-> TranslatedKey(p.k), href |-> value,
                      text |-> LinkText] >>
             ELSE << [el |-> "item", label |-> TranslatedKey(p.k), value |-> value] >>
        ELSE << >>

RECURSIVE FormatProperties(_, _)
FormatProperties(bag, name) ==
    IF bag = << >> THEN << >>
    ELSE FormatProperty(Head(bag), name) \o FormatProperties(Tail(bag), name)

\* a formatter without the fallback literals
getFormattedFeatureInfo_noFallback(bag) ==
    LET name == FeatureGet(bag, K_name)
        type == FeatureGet(bag, K_type)
    IN  << [el |-> "h2", text |-> name], [el |-> "h4", text |-> type] >>
        \o FormatProperties(bag, name)

\* getFormattedFeatureInfo(feature): the HTML fragment as a sequence of elements
getFormattedFeatureInfo(bag) ==
    LET name == OrElse(FeatureGet(bag, K_name), Str(TitleFallback))
        type == OrElse(FeatureGet(bag, K_type), Str(SubtitleFallback))
    IN  << [el |-> "h2", text |-> name], [el |-> "h4", text |-> type] >>
        \o FormatProperties(bag, name)


\* ------------------------------------------------------ layers and features
\* map.addLayer order of the four vector layers (the OSM tile layer, added
\* first, has no vector source and is skipped by performSearch)
MapLayerOrder == <<"cable", "landCable", "point", "dataCenter">>
Layers == {MapLayerOrder[i] : i \in 1..Len(MapLayerOrder)}

\* features are object references 1..3; 0 stands for null
FeatureIds == {1, 2, 3}
NoFeature == 0

\* the layer whose source owns each feature
LayerOf(f) == IF f = 1 THEN "point" ELSE "dataCenter"

\* feature.getGeometry() is not null: feature 3 is a GeoJSON feature with a
\* null geometry
HasGeometry(f) == f # 3

\* the features a loaded source reports from getFeatures(), in its order
RECURSIVE SeqOfSet(_)
SeqOfSet(S) ==
    IF S = {} THEN << >>
    ELSE LET m == CHOOSE x \in S : \A y \in S : x <= y
         IN  <<m>> \o SeqOfSet(S \ {m})

LayerFeatures(l) == SeqOfSet({f \in FeatureIds : LayerOf(f) = l})

V_punto == Str(<<"P", "u", "n", "t", "o", " ", "d", "e", " ",
                 "A", "t", "e", "r", "r", "i", "z", "a", "j", "e">>)
V_data_center == Str(<<"D", "a", "t", "a", " ", "C", "e", "n", "t", "e", "r">>)

\* GeoJSON property bags of the data set the selection controller runs on
MapData ==
    [f \in FeatureIds |->
        CASE f = 1 -> << [k |-> K_name, v |-> Str(<<"a">>)],
                         [k |-> K_type, v |-> V_punto] >>
          [] f = 2 -> << [k |-> K_nombre, v |-> Str(<<"A", "b">>)],
                         [k |-> K_type, v |-> V_data_center],
                         [k |-> K_Empresa, v |-> Str(<<"y">>)] >>
          [] OTHER -> << [k |-> K_name, v |-> Str(<<"A", "b">>)],
                         [k |-> K_type, v |-> Str(<<"y">>)] >>]

\* Inputs of the search functions: the bag of feature 1 ranges over every
\* searched key (and id) with a matching string, a string that matches only
\* the shorter query, or a number, and over two-spelling bags; features 2
\* and 3 supply second matches, equal names and absent names.
SearchedKeys == {K_name, K_nombre, K_type, K_location, K_ubicacion, K_address,
                 K_Direccion, K_comuna, K_Empresa, K_operator, K_operador}
SearchValues == {Str(<<"A", "b">>), Str(<<"b">>), Num(7)}
AliasPairs == { <<K_name, K_nombre>>, <<K_location, K_ubicacion>>,
                <<K_address, K_Direccion>>, <<K_operator, K_operador>> }
BagsOfFeature1 ==
    {<< [k |-> key, v |-> val] >> : key \in SearchedKeys \cup {K_id},
                                    val \in SearchValues}
    \cup {<< [k |-> pr[1], v |-> first], [k |-> pr[2], v |-> Str(<<"A", "b">>)] >> :
              pr \in AliasPairs, first \in {Str(<<"b">>), Str(<< >>), Null}}
BagsOfFeature2 ==
    { << [k |-> K_name, v |-> Str(<<"A", "b">>)] >>,
      << [k |-> K_type, v |-> Str(<<"A", "b">>)] >>,
      << [k |-> K_comuna, v |-> Str(<<"b">>)], [k |-> K_id, v |-> Num(7)] >> }
BagsOfFeature3 ==
    { << [k |-> K_name, v |-> Str(<<"A", "b">>)], [k |-> K_id, v |-> Num(7)] >>,
      << >> }
SearchData ==
    {[f \in FeatureIds |-> IF f = 1 THEN b1 ELSE IF f = 2 THEN b2 ELSE b3] :
        b1 \in BagsOfFeature1, b2 \in BagsOfFeature2, b3 \in BagsOfFeature3}
SearchQueries == {<<"a", "B">>, <<" ", "b", " ">>, <<" ">>}

\* Inputs of the max zoom policy: feature 1, a point with a geometry named
\* "a", has no type or a type that is one of the two categories in some
\* letter case, another string, an empty string, null or a number
TypeValues ==
    { V_data_center,
      Str(<<"D", "A", "T", "A", " ", "C", "E", "N", "T", "E", "R">>),
      V_punto,
      Str(<<"p", "u", "n", "t", "o", " ", "d", "e", " ",
            "a", "t", "e", "r", "r", "i", "z", "a", "j", "e">>),
      Str(<<"d", "a", "t", "a", " ", "c", "e", "n", "t", "e", "r", "s">>),
      Str(<<"y">>), Str(<< >>), Null, Num(0), Num(7) }
ZoomBags ==
    { << [k |-> K_name, v |-> Str(<<"a">>)] >> }
    \cup { << [k |-> K_name, v |-> Str(<<"a">>)], [k |-> K_type, v |-> val] >> :
               val \in TypeValues }
ZoomData ==
    {[f \in FeatureIds |-> IF f = 1 THEN b1
                           ELSE IF f = 2 THEN << [k |-> K_type, v |-> V_data_center] >>
                           ELSE << >>] : b1 \in ZoomBags}

\* Inputs of the formatter: feature 1 holds no property, one property whose
\* key is an excluded key as the source spells it, one in another letter
\* case, an image or reference_link key or a key that is shown, with a
\* truthy or a falsy value, or a name and a type
FormatKeys ==
    excludedKeys
    \cup { <<"N", "a", "m", "e">>, <<"I", "D">>,
           <<"l", "i", "n", "e", "d", "a", "s", "h">>,
           <<"c", "o", "m", "u", "n", "a">>,
           K_image, <<"I", "m", "a", "g", "e">>, K_reference_link }
FormatValues == {Str(<<"b">>), Str(<<"h", "t", "t", "p", ":">>), Num(7), Num(0),
                 Str(<< >>), Null}
FormatBags ==
    {<< [k |-> key, v |-> val] >> : key \in FormatKeys, val \in FormatValues}
    \cup {<< [k |-> K_name, v |-> v1], [k |-> K_type, v |-> v2] >> :
              v1 \in FormatValues, v2 \in FormatValues}
    \cup {<< [k |-> K_image, v |-> v1], [k |-> K_reference_link, v |-> v2] >> :
              v1 \in {Str(<<"b">>), Str(<<"h", "t", "t", "p", ":">>), Null},
              v2 \in {Str(<<"h", "t", "t", "p", ":">>), Num(0)}}
    \cup {<< >>}
FormatData ==
    {[f \in FeatureIds |-> IF f = 1 THEN b1
                           ELSE IF f = 2 THEN << [k |-> K_type, v |-> V_data_center] >>
                           ELSE << >>] : b1 \in FormatBags}

\* getFormattedFeatureInfo tabulated over the property bags of the data sets
KnownBags == {MapData[f] : f \in FeatureIds}
             \cup BagsOfFeature1 \cup BagsOfFeature2 \cup BagsOfFeature3
             \cup ZoomBags \cup {<< [k |-> K_type, v |-> V_data_center] >>}
             \cup FormatBags
FormattedInfo == [bag \in KnownBags |-> getFormattedFeatureInfo(bag)]

\* texts the user leaves in the search box
Queries == {<<"a">>, <<"y">>, <<" ">>}

\* window.innerWidth values on both sides of the breakpoint
Widths == {768, 769}

\* the same with a viewport narrower than the breakpoint
ZoomWidths == Widths \cup {767}

\* source.getState() values seen by a change listener
SourceStates == {"ready", "loading", "error"}

\* most features one hit-test reports
MaxHits == 2
\* most "no matches" messages performSearch piles up in the suggestion list
MaxMessages == 1

\* ------------------------------------------------------------------- state
VARIABLES
    props,              \* property bag of every feature
    srcFeatures,        \* source.getFeatures() of every layer
    allFeatures,        \* the Feature Store
    selectedFeature,    \* the selection, NoFeature when null
    featureStyle,       \* feature.getStyle(): "none" or the highlight override
    isClickOnFeature,   \* flag read by the document click listener
    infoPanelOpen,      \* infoPanel.classList.contains('open')
    layerControlsOpen,  \* layerControls.classList.contains('open')
    toggleDisplay,      \* toggleLayerControlsButton.style.display
    panelContent,       \* panelContent.innerHTML
    searchBoxValue,     \* searchBox.value
    suggestions,        \* children of suggestionsList
    suggestionsDisplay, \* suggestionsList.style.display
    moveendListeners,   \* callbacks registered with map.once('moveend')
    lastFit,            \* options of the view.fit request being animated
    bubbling,           \* target of the click still to reach document
    page,               \* which of landingPage / mapContainer has class 'active'
    view,               \* center and zoom of map.getView()
    layerVisible,       \* layer.getVisible() of every vector layer
    checkboxChecked,    \* checked of the checkbox of every vector layer
    firstBlockTarget,   \* target of the click the first block's document
                        \* listener has still to handle
    isClickOnFeature1,  \* isClickOnFeature of the first DOMContentLoaded block
    allFeatures1        \* allFeatures of the first DOMContentLoaded block

vars == << props, srcFeatures, allFeatures, selectedFeature, featureStyle,
           isClickOnFeature, infoPanelOpen, layerControlsOpen, toggleDisplay,
           panelContent, searchBoxValue, suggestions, suggestionsDisplay,
           moveendListeners, lastFit, bubbling, page, view, layerVisible,
           checkboxChecked, firstBlockTarget, isClickOnFeature1, allFeatures1 >>

pageVars == << page, view, layerVisible, checkboxChecked >>
firstBlockVars == << firstBlockTarget, isClickOnFeature1, allFeatures1 >>
\* what the listeners of the selection controller and of the search box only
\* read, or never touch
dataVars == << props, srcFeatures, allFeatures, pageVars, firstBlockVars >>
selectionVars == << selectedFeature, featureStyle, isClickOnFeature,
                    infoPanelOpen, layerControlsOpen, toggleDisplay,
                    panelContent, moveendListeners, lastFit >>
searchVars == << searchBoxValue, suggestions, suggestionsDisplay >>

NoFit == [maxZoom |-> 0, padding |-> << >>]

\* new ol.View({center: [-70, -35], zoom: 4}) and the view the start button sets
InitialView == [center |-> << -70, -35 >>, zoom |-> 4]
StartView == [center |-> << -70, -30 >>, zoom |-> 3]

\* the landing page is shown, every layer is visible (the layers are built
\* without a visible option) and every checkbox is checked
InitPage ==
    /\ page = [landing |-> TRUE, map |-> FALSE]
    /\ view = InitialView
    /\ layerVisible = [l \in Layers |-> TRUE]
    /\ checkboxChecked = [l \in Layers |-> TRUE]

\* the first block has handled no click and its sources hold no feature yet
InitFirstBlock ==
    /\ firstBlockTarget = "none"
    /\ isClickOnFeature1 = FALSE
    /\ allFeatures1 = << >>

\* state after both the DOM and the script's top level have been set up:
\* nothing is loaded yet, so initializeSearchFeatures finds every source empty
InitControls ==
    /\ srcFeatures = [l \in Layers |-> << >>]
    /\ allFeatures = << >>
    /\ selectedFeature = NoFeature
    /\ featureStyle = [f \in FeatureIds |-> << >>]
    /\ isClickOnFeature = FALSE
    /\ infoPanelOpen = FALSE
    /\ layerControlsOpen = FALSE
    /\ toggleDisplay = "css"
    /\ panelContent = << >>
    /\ searchBoxValue = << >>
    /\ suggestions = << >>
    /\ suggestionsDisplay = "css"
    /\ moveendListeners = << >>
    /\ lastFit = NoFit
    /\ bubbling = "none"
    /\ InitPage
    /\ InitFirstBlock

Init == props = MapData /\ InitControls


\* ----------------------------------------------------- selection controller
NoStyle == << >>
glowStyle == "glow"

\* infoPanel.offsetHeight and offsetWidth while the panel is open
InfoPanelOffset == [height |-> 300, width |-> 400]

\* resetFeatureStyle that forgets setStyle(undefined)
resetFeatureStyle_keepsStyle(sel, style) == style

\* resetFeatureStyle(): the style map and the selection it leaves
resetFeatureStyle_style(sel, style) ==
    IF sel # NoFeature THEN [style EXCEPT ![sel] = NoStyle] ELSE style

\* the style function of layer l applied to feature f: the cable and data
\* center layers return arrays, the point and land cable layers one style;
\* the data center function calls feature.getGeometry().getType() and so
\* raises a TypeError on a feature without geometry
LayerStyleFunction(l, f) ==
    CASE l = "cable" ->
            [threw |-> FALSE, isArray |-> TRUE,
             val |-> << <<"cable", "hit">>, <<"cable", "line">> >>]
      [] l = "point" ->
            [threw |-> FALSE, isArray |-> FALSE, val |-> <<"point", "image">>]
      [] l = "dataCenter" ->
            IF HasGeometry(f)
            THEN [threw |-> FALSE, isArray |-> TRUE,
                  val |-> << <<"dataCenter", "image">> >>]
            ELSE [threw |-> TRUE, isArray |-> FALSE, val |-> << >>]
      [] OTHER ->
            [threw |-> FALSE, isArray |-> FALSE, val |-> <<"landCable", "line">>]

\* combinedStyles built by a moveend callback whose closure holds layer l
combinedStyles(l, f) ==
    LET r == LayerStyleFunction(l, f)
        originalStyle == IF r.isArray THEN r.val ELSE << r.val >>
    IN  << glowStyle >> \o originalStyle

\* featureType && featureType.toLowerCase() === literal
TypeIs(v, literal) ==
    IF ~Truthy(v) THEN "false"
    ELSE IF v.t # "str" THEN "throw"
    ELSE IF ToLower(v.s) = literal THEN "true"
    ELSE "false"

T_data_center == <<"d", "a", "t", "a", " ", "c", "e", "n", "t", "e", "r">>
T_punto == <<"p", "u", "n", "t", "o", " ", "d", "e", " ",
             "a", "t", "e", "r", "r", "i", "z", "a", "j", "e">>

\* currentMaxZoom of the map click handler; 0 when the type test raises
ClickMaxZoom(bag) ==
    LET featureType == FeatureGet(bag, K_type)
        dc == TypeIs(featureType, T_data_center)
        pt == TypeIs(featureType, T_punto)
    IN  IF dc = "throw" THEN 0
        ELSE IF dc = "true" THEN 15
        ELSE IF pt = "true" THEN 13
        ELSE 16

\* maxZoom of performSearch; 0 when the type test raises
SearchMaxZoom(bag) ==
    LET featureType == FeatureGet(bag, K_type)
        pt == TypeIs(featureType, T_punto)
        dc == TypeIs(featureType, T_data_center)
    IN  IF pt = "throw" THEN 0
        ELSE IF pt = "true" THEN 13
        ELSE IF dc = "true" THEN 15
        ELSE 14

\* fitPadding that takes the breakpoint itself for a wide viewport
FitPadding_belowOnly(w) ==
    IF w < 768
    THEN << 50, 50, InfoPanelOffset.height + 20, 50 >>
    ELSE << 50, InfoPanelOffset.width + 20, 50, 50 >>

\* fitPadding for a viewport of width w
FitPadding(w) ==
    IF w <= 768
    THEN << 50, 50, InfoPanelOffset.height + 20, 50 >>
    ELSE << 50, InfoPanelOffset.width + 20, 50, 50 >>

\* a selecting handler that applies the highlight itself
SelectFeature_highlightsAtOnce(f, l, w, zoom) ==
    /\ selectedFeature' = f
    /\ featureStyle' = [resetFeatureStyle_style(selectedFeature, featureStyle)
                           EXCEPT ![f] = combinedStyles(LayerOf(f), f)]
    /\ isClickOnFeature' = TRUE
    /\ panelContent' = FormattedInfo[props[f]]
    /\ infoPanelOpen' = TRUE
    /\ layerControlsOpen' = FALSE
    /\ toggleDisplay' = IF layerControlsOpen /\ w <= 768 THEN "block"
                        ELSE toggleDisplay
    /\ IF HasGeometry(f) /\ zoom # 0
       THEN /\ moveendListeners' =
                   Append(moveendListeners, [layer |-> l, registeredFor |-> f])
            /\ lastFit' = [maxZoom |-> zoom, padding |-> FitPadding(w)]
       ELSE UNCHANGED << moveendListeners, lastFit >>

\* a selecting handler that leaves the layer controls as they are
SelectFeature_keepsLayerControls(f, l, w, zoom) ==
    /\ selectedFeature' = f
    /\ featureStyle' = resetFeatureStyle_style(selectedFeature, featureStyle)
    /\ isClickOnFeature' = TRUE
    /\ panelContent' = FormattedInfo[props[f]]
    /\ infoPanelOpen' = TRUE
    /\ UNCHANGED << layerControlsOpen, toggleDisplay >>
    /\ IF HasGeometry(f) /\ zoom # 0
       THEN /\ moveendListeners' =
                   Append(moveendListeners, [layer |-> l, registeredFor |-> f])
            /\ lastFit' = [maxZoom |-> zoom, padding |-> FitPadding(w)]
       ELSE UNCHANGED << moveendListeners, lastFit >>

\* The part common to the feature branch of the map click handler and to the
\* found branch of performSearch: reset, select, render, open the panel,
\* close the layer controls, register the moveend callback and request the
\* fit.  zoom is the handler's max zoom, 0 when computing it raised.
SelectFeature(f, l, w, zoom) ==
    /\ selectedFeature' = f
    /\ featureStyle' = resetFeatureStyle_style(selectedFeature, featureStyle)
    /\ isClickOnFeature' = TRUE
    /\ panelContent' = FormattedInfo[props[f]]
    /\ infoPanelOpen' = TRUE
    /\ layerControlsOpen' = FALSE
    /\ toggleDisplay' = IF layerControlsOpen /\ w <= 768 THEN "block"
                        ELSE toggleDisplay
    /\ IF HasGeometry(f) /\ zoom # 0
       THEN /\ moveendListeners' =
                   Append(moveendListeners, [layer |-> l, registeredFor |-> f])
            /\ lastFit' = [maxZoom |-> zoom, padding |-> FitPadding(w)]
       ELSE UNCHANGED << moveendListeners, lastFit >>

\* sequences of at most n distinct elements of S
DistinctSeqs(S, n) ==
    {q \in UNION {[1..k -> S] : k \in 0..n} :
        \A i, j \in 1..Len(q) : i # j => q[i] # q[j]}

AllHits == DistinctSeqs(FeatureIds, MaxHits)

Loaded == {f \in FeatureIds : \E i \in 1..Len(srcFeatures[LayerOf(f)]) :
                                  srcFeatures[LayerOf(f)][i] = f}

\* what a hit-test can report: loaded features that have a geometry
Hits == {h \in AllHits : \A i \in 1..Len(h) : h[i] \in Loaded /\ HasGeometry(h[i])}

\* a map click handler that keeps the layer of the first hit reported
MapClick_layerOfFirstHit(hits, w) ==
    /\ bubbling = "none"
    /\ LET clickedFeature == IF hits = << >> THEN NoFeature ELSE hits[Len(hits)]
           clickedLayer == IF hits = << >> THEN "none" ELSE LayerOf(hits[1])
       IN  IF clickedFeature # NoFeature
           THEN /\ HasGeometry(clickedFeature)
                     => Len(moveendListeners) < MaxPending
                /\ SelectFeature(clickedFeature, clickedLayer, w,
                                 ClickMaxZoom(props[clickedFeature]))
           ELSE /\ isClickOnFeature' = FALSE
                /\ infoPanelOpen' = FALSE
                /\ featureStyle' = resetFeatureStyle_style(selectedFeature, featureStyle)
                /\ selectedFeature' = NoFeature
                /\ UNCHANGED << layerControlsOpen, toggleDisplay, panelContent,
                                moveendListeners, lastFit >>
    /\ bubbling' = "map"
    /\ UNCHANGED << dataVars, searchVars >>

\* map.on('click'): hits are the features forEachFeatureAtPixel reports, in
\* its order; the callback returns nothing, so every hit is visited and the
\* last one stays in clickedFeature / clickedLayer
MapClick(hits, w) ==
    /\ bubbling = "none"
    /\ LET clickedFeature == IF hits = << >> THEN NoFeature ELSE hits[Len(hits)]
           clickedLayer == IF hits = << >> THEN "none" ELSE LayerOf(hits[Len(hits)])
       IN  IF clickedFeature # NoFeature
           THEN /\ HasGeometry(clickedFeature)
                     => Len(moveendListeners) < MaxPending
                /\ SelectFeature(clickedFeature, clickedLayer, w,
                                 ClickMaxZoom(props[clickedFeature]))
           ELSE /\ isClickOnFeature' = FALSE
                /\ infoPanelOpen' = FALSE
                /\ featureStyle' = resetFeatureStyle_style(selectedFeature, featureStyle)
                /\ selectedFeature' = NoFeature
                /\ UNCHANGED << layerControlsOpen, toggleDisplay, panelContent,
                                moveendListeners, lastFit >>
    /\ bubbling' = "map"
    /\ UNCHANGED << dataVars, searchVars >>


\* ------------------------------------------------------------------ search
\* the (feature, layer) pairs performSearch visits: map.getLayers() in map
\* order, and each vector source's getFeatures() in the source's order
ScanOrder(src) ==
    LET pairs(l) == [i \in 1..Len(src[l]) |-> [f |-> src[l][i], layer |-> l]]
    IN  pairs(MapLayerOrder[1]) \o pairs(MapLayerOrder[2])
        \o pairs(MapLayerOrder[3]) \o pairs(MapLayerOrder[4])

\* a scan that keeps the first match instead of the last
RECURSIVE ScanFeatures_first(_, _, _, _)
ScanFeatures_first(P, pairs, searchTerm, found) ==
    IF pairs = << >> THEN [threw |-> FALSE, found |-> found]
    ELSE LET m == SearchMatch(P[Head(pairs).f], searchTerm)
         IN  IF m = "throw"
             THEN [threw |-> TRUE, found |-> [f |-> NoFeature, layer |-> "none"]]
             ELSE ScanFeatures_first(P, Tail(pairs), searchTerm,
                                     IF m = "true" /\ found.f = NoFeature
                                     THEN Head(pairs) ELSE found)

\* the two nested forEach loops of performSearch: every match overwrites
\* foundFeature / foundLayer; a TypeError ends the function at once
RECURSIVE ScanFeatures(_, _, _, _)
ScanFeatures(P, pairs, searchTerm, found) ==
    IF pairs = << >> THEN [threw |-> FALSE, found |-> found]
    ELSE LET m == SearchMatch(P[Head(pairs).f], searchTerm)
         IN  IF m = "throw"
             THEN [threw |-> TRUE, found |-> [f |-> NoFeature, layer |-> "none"]]
             ELSE ScanFeatures(P, Tail(pairs), searchTerm,
                               IF m = "true" THEN Head(pairs) ELSE found)

\* a performSearch without the test of an empty term
performSearch_noEmptyCheck(P, src, searchTerm) ==
    LET r == ScanFeatures(P, ScanOrder(src), searchTerm,
                          [f |-> NoFeature, layer |-> "none"])
    IN  IF r.threw THEN [kind |-> "throw", f |-> NoFeature, layer |-> "none"]
        ELSE IF r.found.f # NoFeature
        THEN [kind |-> "found", f |-> r.found.f, layer |-> r.found.layer]
        ELSE [kind |-> "nomatch", f |-> NoFeature, layer |-> "none"]

\* how performSearch(searchTerm) ends: "alert" on an empty term, "throw" on a
\* TypeError, else "found" with foundFeature / foundLayer, or "nomatch"
performSearch(P, src, searchTerm) ==
    IF searchTerm = << >> THEN [kind |-> "alert", f |-> NoFeature, layer |-> "none"]
    ELSE LET r == ScanFeatures(P, ScanOrder(src), searchTerm,
                               [f |-> NoFeature, layer |-> "none"])
         IN  IF r.threw THEN [kind |-> "throw", f |-> NoFeature, layer |-> "none"]
             ELSE IF r.found.f # NoFeature
             THEN [kind |-> "found", f |-> r.found.f, layer |-> r.found.layer]
             ELSE [kind |-> "nomatch", f |-> NoFeature, layer |-> "none"]

NoMatchesNode == [kind |-> "no-results", feature |-> NoFeature, term |-> << >>]

Messages(list) == {i \in 1..Len(list) : list[i].kind = "no-results"}

\* a performSearch whose no-match branch also closes the info panel and
\* clears the selection
SearchAndHide_noMatchDeselects(searchTerm, w) ==
    \E r \in {performSearch(props, srcFeatures, searchTerm)} :
        /\ CASE r.kind = "found" ->
                   /\ HasGeometry(r.f) => Len(moveendListeners) < MaxPending
                   /\ SelectFeature(r.f, r.layer, w, SearchMaxZoom(props[r.f]))
                   /\ UNCHANGED suggestions
             [] r.kind = "nomatch" ->
                   /\ Cardinality(Messages(suggestions)) < MaxMessages
                   /\ suggestions' = Append(suggestions, NoMatchesNode)
                   /\ infoPanelOpen' = FALSE
                   /\ selectedFeature' = NoFeature
                   /\ featureStyle' = resetFeatureStyle_style(selectedFeature,
                                                              featureStyle)
                   /\ UNCHANGED << panelContent, layerControlsOpen,
                                   toggleDisplay, isClickOnFeature, lastFit,
                                   moveendListeners >>
             [] OTHER ->
                   UNCHANGED << selectionVars, suggestions >>
        /\ suggestionsDisplay' = IF r.kind = "throw" THEN suggestionsDisplay
                                 ELSE "none"

\* the effect of performSearch(searchTerm) followed by the caller's
\* suggestionsList.style.display = 'none', which a TypeError skips
SearchAndHide(searchTerm, w) ==
    \E r \in {performSearch(props, srcFeatures, searchTerm)} :
        /\ CASE r.kind = "found" ->
                   /\ HasGeometry(r.f) => Len(moveendListeners) < MaxPending
                   /\ SelectFeature(r.f, r.layer, w, SearchMaxZoom(props[r.f]))
                   /\ UNCHANGED suggestions
             [] r.kind = "nomatch" ->
                   /\ Cardinality(Messages(suggestions)) < MaxMessages
                   /\ suggestions' = Append(suggestions, NoMatchesNode)
                   /\ UNCHANGED selectionVars
             [] OTHER ->
                   UNCHANGED << selectionVars, suggestions >>
        /\ suggestionsDisplay' = IF r.kind = "throw" THEN suggestionsDisplay
                                 ELSE "none"

\* decimal digits of a natural number
DigitChars == <<"0", "1", "2", "3", "4", "5", "6", "7", "8", "9">>
RECURSIVE NatToString(_)
NatToString(n) ==
    IF n < 10 THEN << DigitChars[n + 1] >>
    ELSE NatToString(n \div 10) \o << DigitChars[(n % 10) + 1] >>

\* the string an input element holds after value = v
ToInputString(v) ==
    CASE v.t = "str" -> v.s
      [] v.t = "num" -> NatToString(v.n)
      [] v.t = "null" -> << >>
      [] OTHER -> <<"u", "n", "d", "e", "f", "i", "n", "e", "d">>

\* searchButton click listener
SearchButtonClick(w) ==
    /\ bubbling = "none"
    /\ SearchAndHide(Trim(searchBoxValue), w)
    /\ bubbling' = "searchButton"
    /\ UNCHANGED << dataVars, searchBoxValue >>

\* click listener of the i-th suggestion entry
SuggestionClick(i, w) ==
    /\ bubbling = "none"
    /\ suggestionsDisplay = "block"
    /\ i \in 1..Len(suggestions)
    /\ suggestions[i].kind = "item"
    /\ LET bag == props[suggestions[i].feature]
           value == ToInputString(OrElse(FeatureGet(bag, K_name),
                                         FeatureGet(bag, K_nombre)))
       IN  /\ searchBoxValue' = value
           /\ SearchAndHide(Trim(value), w)
    /\ bubbling' = "suggestion"
    /\ UNCHANGED dataVars

\* the filter callback raises on some feature of the store
FilterThrows(P, store, searchTerm) ==
    \E i \in 1..Len(store) : SuggestMatch(P[store[i]], searchTerm) = "throw"

\* allFeatures.filter(...) of the keyup listener
matchingFeatures(P, store, searchTerm) ==
    SelectSeq(store, LAMBDA f : SuggestMatch(P[f], searchTerm) = "true")

\* the featureId under which the keyup listener deduplicates
SuggestionKey(bag) == OrElse(FeatureGet(bag, K_name), FeatureGet(bag, K_id))

\* a rendering loop without the addedFeatureIds test
RenderSuggestions_noDedup(P, matching, addedFeatureIds) ==
    [i \in 1..Len(matching) |->
        [kind |-> "item", feature |-> matching[i], term |-> << >>]]

\* matchingFeatures.forEach(...): one entry for the first feature of each key
RECURSIVE RenderSuggestions(_, _, _)
RenderSuggestions(P, matching, addedFeatureIds) ==
    IF matching = << >> THEN << >>
    ELSE LET feature == Head(matching)
             featureId == SuggestionKey(P[feature])
         IN  IF featureId \notin addedFeatureIds
             THEN << [kind |-> "item", feature |-> feature, term |-> << >>] >>
                  \o RenderSuggestions(P, Tail(matching),
                                       addedFeatureIds \cup {featureId})
             ELSE RenderSuggestions(P, Tail(matching), addedFeatureIds)

\* children of suggestionsList when the keyup listener ends
SuggestList(P, store, searchTerm) ==
    IF Len(searchTerm) > 0
    THEN IF FilterThrows(P, store, searchTerm) THEN << >>
         ELSE LET matching == matchingFeatures(P, store, searchTerm)
              IN  IF matching # << >>
                  THEN RenderSuggestions(P, matching, {})
                  ELSE << [kind |-> "no-results", feature |-> NoFeature,
                           term |-> searchTerm] >>
    ELSE << >>

\* suggestionsList.style.display when the keyup listener ends
SuggestDisplay_noElse(P, store, searchTerm, display) ==
    IF Len(searchTerm) > 0
    THEN IF FilterThrows(P, store, searchTerm) THEN display ELSE "block"
    ELSE display

SuggestDisplay(P, store, searchTerm, display) ==
    IF Len(searchTerm) > 0
    THEN IF FilterThrows(P, store, searchTerm) THEN display ELSE "block"
    ELSE "none"

\* the user changes the text of the search box (typing, deleting, pasting
\* with the mouse); the keyup listener is a separate event
EditSearchBox(text) ==
    /\ bubbling = "none"
    /\ text # searchBoxValue
    /\ searchBoxValue' = text
    /\ UNCHANGED << dataVars, selectionVars, suggestions, suggestionsDisplay,
                    bubbling >>

\* searchBox keyup listener
KeyUp ==
    /\ bubbling = "none"
    /\ \E searchTerm \in {ToLower(Trim(searchBoxValue))} :
           /\ suggestions' = SuggestList(props, allFeatures, searchTerm)
           /\ suggestionsDisplay' =
                  SuggestDisplay(props, allFeatures, searchTerm, suggestionsDisplay)
    /\ UNCHANGED << dataVars, selectionVars, searchBoxValue, bubbling >>

\* searchBox click listener
SearchBoxClick ==
    /\ bubbling = "none"
    /\ searchBoxValue' = IF Len(searchBoxValue) > 0 THEN << >> ELSE searchBoxValue
    /\ bubbling' = "searchBox"
    /\ UNCHANGED << dataVars, selectionVars, suggestions, suggestionsDisplay >>


\* ------------------------------------------------------------ panel events
\* a toggle listener that leaves the info panel as it is
ToggleClick_keepsInfoPanel ==
    /\ bubbling = "none"
    /\ toggleDisplay # "none"
    /\ layerControlsOpen' = ~layerControlsOpen
    /\ toggleDisplay' = IF ~layerControlsOpen THEN "none" ELSE "block"
    /\ bubbling' = "toggleButton"
    /\ UNCHANGED << dataVars, searchVars, selectedFeature, featureStyle,
                    isClickOnFeature, infoPanelOpen, panelContent,
                    moveendListeners, lastFit >>

\* toggleLayerControlsButton click listener; a button with display 'none'
\* cannot be clicked
ToggleClick ==
    /\ bubbling = "none"
    /\ toggleDisplay # "none"
    /\ layerControlsOpen' = ~layerControlsOpen
    /\ toggleDisplay' = IF ~layerControlsOpen THEN "none" ELSE "block"
    /\ infoPanelOpen' = FALSE
    /\ bubbling' = "toggleButton"
    /\ UNCHANGED << dataVars, searchVars, selectedFeature, featureStyle,
                    isClickOnFeature, panelContent, moveendListeners, lastFit >>

\* closePanelButton click listener; the button sits inside the info panel,
\* whose own click listener stops the propagation to document
ClosePanelClick ==
    /\ bubbling = "none"
    /\ infoPanelOpen
    /\ infoPanelOpen' = FALSE
    /\ featureStyle' = resetFeatureStyle_style(selectedFeature, featureStyle)
    /\ selectedFeature' = NoFeature
    /\ UNCHANGED << dataVars, searchVars, isClickOnFeature, layerControlsOpen,
                    toggleDisplay, panelContent, moveendListeners, lastFit,
                    bubbling >>

\* the panels the user can click into
PanelTargets == {"infoPanel", "layerControls"}

\* a panel click that the panel's listener lets through to document
PanelClick_propagates(target) ==
    /\ bubbling = "none"
    /\ target \in PanelTargets
    /\ target = "infoPanel" => infoPanelOpen
    /\ target = "layerControls" => layerControlsOpen
    /\ bubbling' = target
    /\ UNCHANGED << dataVars, searchVars, selectionVars >>

\* a click inside the info panel (not on its close button) or inside the
\* layer controls: the panel's own click listener calls stopPropagation, so
\* the click never reaches document
PanelClick(target) ==
    /\ bubbling = "none"
    /\ target \in PanelTargets
    /\ target = "infoPanel" => infoPanelOpen
    /\ target = "layerControls" => layerControlsOpen
    /\ UNCHANGED vars

\* a click on the page outside the map, the panels, the toggle button and
\* the search container: no listener before document
OutsideClick ==
    /\ bubbling = "none"
    /\ bubbling' = "outside"
    /\ UNCHANGED << dataVars, searchVars, selectionVars >>

\* event.target.closest('.search-container') is not null
InSearchContainer(target) == target \in {"searchButton", "suggestion", "searchBox"}

\* document listeners whose panel-closing one does not reset the selection
DocumentClick_noReset ==
    /\ bubbling # "none"
    /\ IF isClickOnFeature
       THEN /\ isClickOnFeature' = FALSE
            /\ UNCHANGED << layerControlsOpen, toggleDisplay, infoPanelOpen >>
       ELSE /\ IF layerControlsOpen /\ bubbling \notin {"layerControls", "toggleButton"}
               THEN layerControlsOpen' = FALSE /\ toggleDisplay' = "block"
               ELSE UNCHANGED << layerControlsOpen, toggleDisplay >>
            /\ infoPanelOpen' = (infoPanelOpen /\ bubbling = "infoPanel")
            /\ UNCHANGED isClickOnFeature
    /\ suggestionsDisplay' = IF InSearchContainer(bubbling) THEN suggestionsDisplay
                             ELSE "none"
    /\ bubbling' = "none"
    /\ UNCHANGED << dataVars, searchBoxValue, suggestions, panelContent,
                    moveendListeners, lastFit, selectedFeature, featureStyle >>

\* the two click listeners on document, run when the click of `bubbling`
\* reaches it: the panel-closing one, then the suggestion-hiding one
DocumentClick ==
    /\ bubbling # "none"
    /\ IF isClickOnFeature
       THEN /\ isClickOnFeature' = FALSE
            /\ UNCHANGED << layerControlsOpen, toggleDisplay, infoPanelOpen,
                            selectedFeature, featureStyle >>
       ELSE /\ IF layerControlsOpen /\ bubbling \notin {"layerControls", "toggleButton"}
               THEN layerControlsOpen' = FALSE /\ toggleDisplay' = "block"
               ELSE UNCHANGED << layerControlsOpen, toggleDisplay >>
            /\ IF infoPanelOpen /\ bubbling # "infoPanel"
               THEN /\ infoPanelOpen' = FALSE
                    /\ featureStyle' =
                           resetFeatureStyle_style(selectedFeature, featureStyle)
                    /\ selectedFeature' = NoFeature
               ELSE UNCHANGED << infoPanelOpen, featureStyle, selectedFeature >>
            /\ UNCHANGED isClickOnFeature
    /\ suggestionsDisplay' = IF InSearchContainer(bubbling) THEN suggestionsDisplay
                             ELSE "none"
    /\ bubbling' = "none"
    /\ UNCHANGED << dataVars, searchBoxValue, suggestions, panelContent,
                    moveendListeners, lastFit >>

\* ------------------------------------------------------------------ moveend
\* a dispatch that unregisters the callbacks without running them
RunMoveend_unregistersOnly(listeners, sel, style) ==
    [style |-> style, left |-> << >>]

\* a dispatch whose callbacks act only for the feature they were registered for
RECURSIVE RunMoveend_discardsStale(_, _, _)
RunMoveend_discardsStale(listeners, sel, style) ==
    IF listeners = << >> THEN [style |-> style, left |-> << >>]
    ELSE IF sel = NoFeature \/ Head(listeners).registeredFor # sel
    THEN RunMoveend_discardsStale(Tail(listeners), sel, style)
    ELSE IF LayerStyleFunction(Head(listeners).layer, sel).threw
    THEN [style |-> style, left |-> Tail(listeners)]
    ELSE RunMoveend_discardsStale(Tail(listeners), sel,
             [style EXCEPT ![sel] = combinedStyles(Head(listeners).layer, sel)])

\* the callbacks of map.once('moveend') run in registration order; each one
\* is unregistered as it is called; a TypeError raised by a style function
\* ends the dispatch and leaves the later callbacks registered
RECURSIVE RunMoveend(_, _, _)
RunMoveend(listeners, sel, style) ==
    IF listeners = << >> THEN [style |-> style, left |-> << >>]
    ELSE IF sel = NoFeature THEN RunMoveend(Tail(listeners), sel, style)
    ELSE IF LayerStyleFunction(Head(listeners).layer, sel).threw
    THEN [style |-> style, left |-> Tail(listeners)]
    ELSE RunMoveend(Tail(listeners), sel,
                    [style EXCEPT ![sel] = combinedStyles(Head(listeners).layer, sel)])

\* the map's moveend signal, which ends the animation of the last fit
MoveEnd ==
    /\ bubbling = "none"
    /\ moveendListeners # << >>
    /\ LET r == RunMoveend(moveendListeners, selectedFeature, featureStyle)
       IN  /\ featureStyle' = r.style
           /\ moveendListeners' = r.left
    /\ lastFit' = NoFit
    /\ UNCHANGED << dataVars, searchVars, selectedFeature, isClickOnFeature,
                    infoPanelOpen, layerControlsOpen, toggleDisplay,
                    panelContent, bubbling >>

\* ------------------------------------------------------------ Feature Store
\* a listener that assigns the source's features to the store
SourceChangeListener_assigns(store, features, state) ==
    IF state = "ready" THEN features ELSE store

\* a listener that does not look at the source's state
SourceChangeListener_anyState(store, features, state) == store \o features

\* the change listener initializeSearchFeatures puts on a layer's source
SourceChangeListener(store, features, state) ==
    IF state = "ready" THEN store \o features ELSE store

\* the source of layer l finishes loading its file: its features exist from
\* now on and it signals change in state 'ready'
LoadLayer(l) ==
    /\ bubbling = "none"
    /\ srcFeatures[l] = << >>
    /\ LayerFeatures(l) # << >>
    /\ Len(allFeatures) + Len(LayerFeatures(l)) <= MaxStore
    /\ srcFeatures' = [srcFeatures EXCEPT ![l] = LayerFeatures(l)]
    /\ allFeatures' = SourceChangeListener(allFeatures, LayerFeatures(l), "ready")
    /\ UNCHANGED << props, pageVars, firstBlockVars, searchVars, selectionVars,
                    bubbling >>

\* any later change signal of the source of layer l, seen in state st
SourceChange(l, st) ==
    /\ bubbling = "none"
    /\ srcFeatures[l] # << >>
    /\ st \in SourceStates
    /\ Len(allFeatures) + Len(srcFeatures[l]) <= MaxStore
    /\ allFeatures' = SourceChangeListener(allFeatures, srcFeatures[l], st)
    /\ UNCHANGED << props, srcFeatures, pageVars, firstBlockVars, searchVars,
                    selectionVars, bubbling >>

\* ------------------------------------------------------------ landing page
\* a start listener that checks the boxes and leaves the layers as they are
StartClick_keepsLayers ==
    /\ bubbling = "none"
    /\ page.landing
    /\ page' = [landing |-> FALSE, map |-> TRUE]
    /\ view' = StartView
    /\ checkboxChecked' = [l \in Layers |-> TRUE]
    /\ bubbling' = "startButton"
    /\ UNCHANGED << props, srcFeatures, allFeatures, layerVisible, firstBlockVars,
                    searchVars, selectionVars >>

\* startButton click listener; the button is part of the landing page
StartClick ==
    /\ bubbling = "none"
    /\ page.landing
    /\ page' = [landing |-> FALSE, map |-> TRUE]
    /\ view' = StartView
    /\ checkboxChecked' = [l \in Layers |-> TRUE]
    /\ layerVisible' = [l \in Layers |-> TRUE]
    /\ bubbling' = "startButton"
    /\ UNCHANGED << props, srcFeatures, allFeatures, firstBlockVars, searchVars,
                    selectionVars >>

\* backButton click listener; the button is part of the map page
BackClick ==
    /\ bubbling = "none"
    /\ page.map
    /\ page' = [landing |-> TRUE, map |-> FALSE]
    /\ bubbling' = "backButton"
    /\ UNCHANGED << props, srcFeatures, allFeatures, view, layerVisible,
                    checkboxChecked, firstBlockVars, searchVars, selectionVars >>

\* the user flips the checkbox of layer l; its change listener copies the
\* new state to the layer.  The event is a change, not a click.
CheckboxChange(l) ==
    /\ bubbling = "none"
    /\ page.map
    /\ checkboxChecked' = [checkboxChecked EXCEPT ![l] = ~checkboxChecked[l]]
    /\ layerVisible' = [layerVisible EXCEPT ![l] = ~checkboxChecked[l]]
    /\ UNCHANGED << props, srcFeatures, allFeatures, page, view, firstBlockVars,
                    searchVars, selectionVars, bubbling >>

\* views the map's interactions and fit animations leave
Views == {InitialView, StartView, [center |-> << -71, -33 >>, zoom |-> 13]}

\* the user pans or zooms the map, or an animation settles
ViewChange(v) ==
    /\ bubbling = "none"
    /\ page.map
    /\ v # view
    /\ view' = v
    /\ UNCHANGED << props, srcFeatures, allFeatures, page, layerVisible,
                    checkboxChecked, firstBlockVars, searchVars, selectionVars,
                    bubbling >>

\* ------------------------------------------------------------ specification
\* The selection controller: loading, map clicks, committed searches, the
\* panel controls and the moveend signal.  The text of the search box is
\* edited without its keyup listener, which only rewrites the suggestion
\* list (SpecSearch covers it and the suggestion entries).
Next ==
    \/ \E l \in Layers : LoadLayer(l)
    \/ \E hits \in Hits, w \in Widths : MapClick(hits, w)
    \/ \E q \in Queries : EditSearchBox(q)
    \/ \E w \in Widths : SearchButtonClick(w)
    \/ SearchBoxClick
    \/ ToggleClick
    \/ ClosePanelClick
    \/ \E target \in PanelTargets : PanelClick(target)
    \/ OutsideClick
    \/ DocumentClick
    \/ MoveEnd

Spec == Init /\ [][Next]_vars

\* ------------------------------------------------- the search functions
\* The change signals received so far, as the sequence of their layers:
\* every one appended its layer's features to the store.
RECURSIVE StoreOf(_)
StoreOf(signals) ==
    IF signals = << >> THEN << >>
    ELSE LayerFeatures(Head(signals)) \o StoreOf(Tail(signals))

SignalSeqs ==
    {sig \in UNION {[1..k -> {l \in Layers : LayerFeatures(l) # << >>}] :
                        k \in 0..MaxStore} : Len(StoreOf(sig)) <= MaxStore}

\* suggest and findFirst on drawn inputs: a data set, a store built by any
\* sequence of load signals, and any text in the search box
InitSearch ==
    /\ props \in SearchData
    /\ \E sig \in SignalSeqs :
          /\ allFeatures = StoreOf(sig)
          /\ srcFeatures = [l \in Layers |->
                               IF \E i \in 1..Len(sig) : sig[i] = l
                               THEN LayerFeatures(l) ELSE << >>]
    /\ searchBoxValue \in SearchQueries
    /\ selectedFeature = NoFeature
    /\ featureStyle = [f \in FeatureIds |-> << >>]
    /\ isClickOnFeature = FALSE
    /\ infoPanelOpen = FALSE
    /\ layerControlsOpen = FALSE
    /\ toggleDisplay = "css"
    /\ panelContent = << >>
    /\ suggestions = << >>
    /\ suggestionsDisplay = "css"
    /\ moveendListeners = << >>
    /\ lastFit = NoFit
    /\ bubbling = "none"
    /\ InitPage
    /\ InitFirstBlock

NextSearch ==
    \/ KeyUp
    \/ \E w \in {769} : SearchButtonClick(w)
    \/ \E i \in 1..Len(suggestions), w \in {769} : SuggestionClick(i, w)
    \/ DocumentClick
    \/ MoveEnd

SpecSearch == InitSearch /\ [][NextSearch]_vars

\* the keyup listener alone on the same inputs, with the clicks that empty
\* the search box and hide the list
NextSuggest ==
    \/ KeyUp
    \/ SearchBoxClick
    \/ DocumentClick

SpecSuggest == InitSearch /\ [][NextSuggest]_vars

\* the Feature Store, the signals that fill it and the keyup listener that
\* reads it
NextStore ==
    \/ \E l \in Layers : LoadLayer(l)
    \/ \E l \in Layers, st \in SourceStates : SourceChange(l, st)
    \/ \E q \in Queries : EditSearchBox(q)
    \/ KeyUp

SpecStore == Init /\ [][NextStore]_vars

\* the landing page buttons, the layer checkboxes and the view
NextPage ==
    \/ StartClick
    \/ BackClick
    \/ \E l \in Layers : CheckboxChange(l)
    \/ \E v \in Views : ViewChange(v)
    \/ DocumentClick

SpecPage == Init /\ [][NextPage]_vars

\* ------------------------------------------------- the two listener blocks
\* The script registers two DOMContentLoaded listeners.  Each builds its own
\* map, flag and feature store and attaches its listeners to the same
\* elements, so a click runs the first block's listener of the target, then
\* the second block's, then on document the first block's listeners and at
\* last the second block's.  firstBlockTarget follows the click: the target
\* once the first block's target listener has run, "document" once its
\* document listeners have.  The second block's map lies over the first
\* one's, whose map listeners therefore see no click.

\* no click is being dispatched
IdleBlocks == bubbling = "none" /\ firstBlockTarget \in {"none", "document"}

\* a source of the first block finishes loading: its change listener appends
\* the source's features to the first block's allFeatures
FirstLoadLayer(l) ==
    /\ IdleBlocks
    /\ LayerFeatures(l) # << >>
    /\ \A i \in 1..Len(allFeatures1) : LayerOf(allFeatures1[i]) # l
    /\ Len(allFeatures1) + Len(LayerFeatures(l)) <= MaxStore
    /\ allFeatures1' = SourceChangeListener(allFeatures1, LayerFeatures(l), "ready")
    /\ UNCHANGED << props, srcFeatures, allFeatures, pageVars, firstBlockTarget,
                    isClickOnFeature1, searchVars, selectionVars, bubbling >>

\* allFeatures.forEach of the first block's performSearch: only name, or
\* nombre, is tested; every match overwrites foundFeature
RECURSIVE FirstScan(_, _, _, _)
FirstScan(P, store, searchTerm, found) ==
    IF store = << >> THEN [threw |-> FALSE, found |-> found]
    ELSE LET bag == P[Head(store)]
             m == FieldTest(OrElse(FeatureGet(bag, K_name), FeatureGet(bag, K_nombre)),
                            ToLower(searchTerm))
         IN  IF m = "throw" THEN [threw |-> TRUE, found |-> NoFeature]
             ELSE FirstScan(P, Tail(store), searchTerm,
                            IF m = "true" THEN Head(store) ELSE found)

\* how the first block's performSearch(searchTerm) ends
FirstPerformSearch(P, store, searchTerm) ==
    IF searchTerm = << >> THEN [kind |-> "alert", f |-> NoFeature]
    ELSE LET r == FirstScan(P, store, searchTerm, NoFeature)
         IN  IF r.threw THEN [kind |-> "throw", f |-> NoFeature]
             ELSE IF r.found # NoFeature THEN [kind |-> "found", f |-> r.found]
             ELSE [kind |-> "nomatch", f |-> NoFeature]

\* the first block's searchButton listener: performSearch and then
\* suggestionsList.style.display = 'none'.  Its found branch raises its own
\* flag, fills and opens the info panel and closes the layer controls; it
\* knows no selection and no highlight, and its fit moves its own map.
FirstSearchButtonClick(w) ==
    /\ IdleBlocks
    /\ \E r \in {FirstPerformSearch(props, allFeatures1, Trim(searchBoxValue))} :
        /\ CASE r.kind = "found" ->
                   /\ isClickOnFeature1' = TRUE
                   /\ panelContent' = FormattedInfo[props[r.f]]
                   /\ infoPanelOpen' = TRUE
                   /\ layerControlsOpen' = FALSE
                   /\ toggleDisplay' = IF layerControlsOpen /\ w <= 768 THEN "block"
                                       ELSE toggleDisplay
                   /\ UNCHANGED suggestions
             [] r.kind = "nomatch" ->
                   /\ Cardinality(Messages(suggestions)) < MaxMessages
                   /\ suggestions' = Append(suggestions, NoMatchesNode)
                   /\ UNCHANGED << isClickOnFeature1, panelContent, infoPanelOpen,
                                   layerControlsOpen, toggleDisplay >>
             [] OTHER ->
                   UNCHANGED << isClickOnFeature1, panelContent, infoPanelOpen,
                                layerControlsOpen, toggleDisplay, suggestions >>
        /\ suggestionsDisplay' =
               IF r.kind = "throw"
                  \/ (r.kind = "found" /\ HasGeometry(r.f)
                                       /\ SearchMaxZoom(props[r.f]) = 0)
               THEN suggestionsDisplay ELSE "none"
    /\ firstBlockTarget' = "searchButton"
    /\ UNCHANGED << props, srcFeatures, allFeatures, pageVars, allFeatures1,
                    searchBoxValue, selectedFeature, featureStyle,
                    isClickOnFeature, moveendListeners, lastFit, bubbling >>

\* a click on the i-th suggestion entry: the second block's keyup listener,
\* which runs after the first block's, has emptied the list and rendered
\* its own entries, so the first block has no listener on the entry
FirstSuggestionClick(i) ==
    /\ IdleBlocks
    /\ suggestionsDisplay = "block"
    /\ i \in 1..Len(suggestions)
    /\ suggestions[i].kind = "item"
    /\ firstBlockTarget' = "suggestion"
    /\ UNCHANGED << props, srcFeatures, allFeatures, pageVars, allFeatures1,
                    isClickOnFeature1, searchVars, selectionVars, bubbling >>

\* the first block's listener on the toggle button
FirstToggleClick ==
    /\ IdleBlocks
    /\ toggleDisplay # "none"
    /\ layerControlsOpen' = ~layerControlsOpen
    /\ toggleDisplay' = IF ~layerControlsOpen THEN "none" ELSE "block"
    /\ infoPanelOpen' = FALSE
    /\ firstBlockTarget' = "toggleButton"
    /\ UNCHANGED << props, srcFeatures, allFeatures, pageVars, allFeatures1,
                    isClickOnFeature1, searchVars, selectedFeature, featureStyle,
                    isClickOnFeature, panelContent, moveendListeners, lastFit,
                    bubbling >>

\* the second block's listener on the toggle button, run on the click the
\* first block's listener has just handled, whatever that one did to the
\* button
SecondToggleClick ==
    /\ bubbling = "none"
    /\ firstBlockTarget = "toggleButton"
    /\ layerControlsOpen' = ~layerControlsOpen
    /\ toggleDisplay' = IF ~layerControlsOpen THEN "none" ELSE "block"
    /\ infoPanelOpen' = FALSE
    /\ bubbling' = "toggleButton"
    /\ UNCHANGED << dataVars, searchVars, selectedFeature, featureStyle,
                    isClickOnFeature, panelContent, moveendListeners, lastFit >>

\* the first block's two click listeners on document: the panel-closing one,
\* which reads the first block's flag and closes the info panel without
\* touching the selection, then the suggestion-hiding one
FirstDocumentClick ==
    /\ bubbling # "none"
    /\ firstBlockTarget = bubbling
    /\ IF isClickOnFeature1
       THEN /\ isClickOnFeature1' = FALSE
            /\ UNCHANGED << layerControlsOpen, toggleDisplay, infoPanelOpen >>
       ELSE /\ IF layerControlsOpen /\ bubbling \notin {"layerControls", "toggleButton"}
               THEN layerControlsOpen' = FALSE /\ toggleDisplay' = "block"
               ELSE UNCHANGED << layerControlsOpen, toggleDisplay >>
            /\ infoPanelOpen' = (infoPanelOpen /\ bubbling = "infoPanel")
            /\ UNCHANGED isClickOnFeature1
    /\ suggestionsDisplay' = IF InSearchContainer(bubbling) THEN suggestionsDisplay
                             ELSE "none"
    /\ firstBlockTarget' = "document"
    /\ UNCHANGED << props, srcFeatures, allFeatures, pageVars, allFeatures1,
                    searchBoxValue, suggestions, selectedFeature, featureStyle,
                    isClickOnFeature, panelContent, moveendListeners, lastFit,
                    bubbling >>

\* both blocks on the loaded data set: typing, and clicks on the search
\* button, on a suggestion entry and on the toggle button, each handled by
\* the listeners of both blocks in their order of registration
NextBlocks ==
    \/ \E l \in Layers : IdleBlocks /\ LoadLayer(l)
    \/ \E l \in Layers : FirstLoadLayer(l)
    \/ \E q \in Queries : IdleBlocks /\ EditSearchBox(q)
    \/ IdleBlocks /\ KeyUp
    \/ \E w \in Widths : FirstSearchButtonClick(w)
    \/ \E w \in Widths : firstBlockTarget = "searchButton" /\ SearchButtonClick(w)
    \/ \E i \in 1..Len(suggestions) : FirstSuggestionClick(i)
    \/ \E i \in 1..Len(suggestions), w \in Widths :
           firstBlockTarget = "suggestion" /\ SuggestionClick(i, w)
    \/ FirstToggleClick
    \/ SecondToggleClick
    \/ FirstDocumentClick
    \/ firstBlockTarget = "document" /\ DocumentClick
    \/ IdleBlocks /\ MoveEnd

SpecBlocks == Init /\ [][NextBlocks]_vars

\* the two selecting handlers on a loaded map whose first feature has a drawn
\* type
InitZoom ==
    /\ props \in ZoomData
    /\ srcFeatures = [l \in Layers |-> LayerFeatures(l)]
    /\ allFeatures = StoreOf(<<"point", "dataCenter">>)
    /\ searchBoxValue \in {<<"a">>, <<"y">>}
    /\ selectedFeature = NoFeature
    /\ featureStyle = [f \in FeatureIds |-> << >>]
    /\ isClickOnFeature = FALSE
    /\ infoPanelOpen = FALSE
    /\ layerControlsOpen = FALSE
    /\ toggleDisplay = "css"
    /\ panelContent = << >>
    /\ suggestions = << >>
    /\ suggestionsDisplay = "css"
    /\ moveendListeners = << >>
    /\ lastFit = NoFit
    /\ bubbling = "none"
    /\ InitPage
    /\ InitFirstBlock

NextZoom ==
    \/ \E hits \in Hits, w \in ZoomWidths : MapClick(hits, w)
    \/ \E w \in ZoomWidths : SearchButtonClick(w)
    \/ DocumentClick
    \/ MoveEnd

SpecZoom == InitZoom /\ [][NextZoom]_vars

\* the info panel filled by map clicks on a loaded map whose first feature
\* holds a drawn property
InitFormat ==
    /\ props \in FormatData
    /\ srcFeatures = [l \in Layers |-> LayerFeatures(l)]
    /\ allFeatures = StoreOf(<<"point", "dataCenter">>)
    /\ searchBoxValue = << >>
    /\ selectedFeature = NoFeature
    /\ featureStyle = [f \in FeatureIds |-> << >>]
    /\ isClickOnFeature = FALSE
    /\ infoPanelOpen = FALSE
    /\ layerControlsOpen = FALSE
    /\ toggleDisplay = "css"
    /\ panelContent = << >>
    /\ suggestions = << >>
    /\ suggestionsDisplay = "css"
    /\ moveendListeners = << >>
    /\ lastFit = NoFit
    /\ bubbling = "none"
    /\ InitPage
    /\ InitFirstBlock

NextFormat ==
    \/ \E hits \in Hits, w \in Widths : MapClick(hits, w)
    \/ ClosePanelClick
    \/ DocumentClick
    \/ MoveEnd

SpecFormat == InitFormat /\ [][NextFormat]_vars

\* ================================================================= properties
Highlighted == {f \in FeatureIds : featureStyle[f] # NoStyle}
HighlightedAfter == {f \in FeatureIds : featureStyle'[f] # NoStyle}

IsPrefix(p, q) == Len(p) <= Len(q) /\ SubSeq(q, 1, Len(p)) = p

\* C1: highlight exclusivity.  In every reachable state at most one feature
\* carries the highlight override, and a highlighted feature is the selected
\* one: selecting A and then B never leaves A, or both, highlighted.
C1_HighlightExclusive ==
    /\ Cardinality(Highlighted) <= 1
    /\ \A f \in Highlighted : f = selectedFeature

\* feature 3 has no geometry and never registers a callback of its own: it
\* is highlighted only after another feature was selected before it
C1_Witness ==
    /\ selectedFeature = 3
    /\ Highlighted = {3}

\* -------------------------------------------- properties of performSearch
\* a search handler has just returned, and the term it searched for
SearchReturned == bubbling \in {"searchButton", "suggestion"}
SearchedTerm == Trim(searchBoxValue)

Last(S) == CHOOSE i \in S : \A j \in S : j <= i

\* positions of the layer scan, and of the store, whose feature satisfies
\* the condition of performSearch; the scan raises on some feature
ScanMatches ==
    {i \in 1..Len(ScanOrder(srcFeatures)) :
        SearchMatch(props[ScanOrder(srcFeatures)[i].f], SearchedTerm) = "true"}
StoreMatches ==
    {i \in 1..Len(allFeatures) :
        SearchMatch(props[allFeatures[i]], SearchedTerm) = "true"}
ScanRaises ==
    \E i \in 1..Len(ScanOrder(srcFeatures)) :
        SearchMatch(props[ScanOrder(srcFeatures)[i].f], SearchedTerm) = "throw"

\* C2 as stated: with several matches performSearch returns the matching
\* feature that stands last in the Feature Store (allFeatures).
C2_LastInStoreOrder ==
    (SearchReturned /\ SearchedTerm # << >> /\ ~ScanRaises /\ StoreMatches # {})
    => /\ isClickOnFeature
       /\ selectedFeature = allFeatures[Last(StoreMatches)]

\* C2: performSearch returns the last match of its scan, which runs over the
\* map's layers in map order and over each layer's source in source order,
\* not over the Feature Store; a scan that raises selects nothing.
C2_LastInMapLayerOrder ==
    (SearchReturned /\ SearchedTerm # << >>)
    => /\ (~ScanRaises /\ ScanMatches # {})
          => /\ isClickOnFeature
             /\ selectedFeature = ScanOrder(srcFeatures)[Last(ScanMatches)].f
       /\ ScanRaises => ~isClickOnFeature

\* two features match, the search took the later one of the layer scan, and
\* the store, filled in another order, ends with a different match
C2_Witness ==
    /\ SearchReturned
    /\ isClickOnFeature
    /\ ~ScanRaises
    /\ Cardinality({ScanOrder(srcFeatures)[i].f : i \in ScanMatches}) >= 2
    /\ selectedFeature = ScanOrder(srcFeatures)[Last(ScanMatches)].f
    /\ allFeatures[Last(StoreMatches)] # selectedFeature

\* the keyup filter lists a feature for the searched term
SuggestedNow ==
    LET list == SuggestList(props, allFeatures, ToLower(SearchedTerm))
    IN  \E i \in 1..Len(list) : list[i].kind = "item"

\* value v is a string that contains q, case-insensitively
ValueContains(v, q) == v.t = "str" /\ Includes(ToLower(v.s), ToLower(q))

\* C3: performSearch finds a feature whenever the type of a loaded feature
\* contains the term, and whenever the keyup filter lists an entry for it.
C3_SearchUsesType ==
    (SearchReturned /\ SearchedTerm # << >> /\ ~ScanRaises)
    => /\ (\E f \in Loaded :
              ValueContains(FeatureGet(props[f], K_type), SearchedTerm))
          => isClickOnFeature
       /\ SuggestedNow => isClickOnFeature

\* C6: a feature matches when either spelling of an aliased field contains
\* the term, also when it carries both spellings and only the second does:
\* performSearch then finds a feature.
C6_EitherSpellingMatches ==
    (SearchReturned /\ SearchedTerm # << >> /\ ~ScanRaises)
    => ( (\E f \in Loaded, pr \in AliasPairs, i \in {1, 2} :
              ValueContains(FeatureGet(props[f], pr[i]), SearchedTerm))
         => isClickOnFeature )

\* --------------------------------------- properties of the keyup listener
SuggestTerm == ToLower(Trim(searchBoxValue))
ItemsAfter == {i \in 1..Len(suggestions') : suggestions'[i].kind = "item"}
RenderedAfter == {suggestions'[i].feature : i \in ItemsAfter}
Rendered == {suggestions[i].feature :
                i \in {j \in 1..Len(suggestions) : suggestions[j].kind = "item"}}

FirstTruthy(bag, k1, k2) ==
    IF Truthy(FeatureGet(bag, k1)) THEN FeatureGet(bag, k1) ELSE FeatureGet(bag, k2)
TestedValues(bag) ==
    << FirstTruthy(bag, K_name, K_nombre), FeatureGet(bag, K_type),
       FirstTruthy(bag, K_location, K_ubicacion),
       FirstTruthy(bag, K_address, K_Direccion),
       FeatureGet(bag, K_comuna), FeatureGet(bag, K_Empresa),
       FirstTruthy(bag, K_operator, K_operador) >>
NotText(v) == Truthy(v) /\ v.t # "str"
\* the filter accepts the feature: a tested value contains q and no value
\* tested before it is a non-empty non-string
Accepts(bag, q) ==
    \E i \in 1..Len(TestedValues(bag)) :
        /\ ValueContains(TestedValues(bag)[i], q)
        /\ \A j \in 1..(i - 1) : ~NotText(TestedValues(bag)[j])
\* the filter raises on the feature: a tested value is a non-empty
\* non-string and no value tested before it contains q
Raises(bag, q) ==
    \E i \in 1..Len(TestedValues(bag)) :
        /\ NotText(TestedValues(bag)[i])
        /\ \A j \in 1..(i - 1) : ~ValueContains(TestedValues(bag)[j], q)

FirstOfKey(i) ==
    {p \in 1..Len(allFeatures) :
        /\ SuggestMatch(props[allFeatures[p]], SuggestTerm) = "true"
        /\ SuggestionKey(props[allFeatures[p]])
             = SuggestionKey(props[suggestions'[i].feature])
        /\ \A r \in 1..(p - 1) :
              SuggestMatch(props[allFeatures[r]], SuggestTerm) = "true"
              => SuggestionKey(props[allFeatures[r]])
                   # SuggestionKey(props[allFeatures[p]])}

\* C5: the list a keyup renders never holds two entries with the same key
\* (name, else id), whatever the store holds; the entry of a key is the
\* first matching feature of the store with that key, and the entries stand
\* in store order.
C5_SuggestionsDeduplicated ==
    [][ KeyUp
        => \A i, j \in ItemsAfter :
              /\ i # j => SuggestionKey(props[suggestions'[i].feature])
                            # SuggestionKey(props[suggestions'[j].feature])
              /\ FirstOfKey(i) # {}
              /\ \A p \in FirstOfKey(i) : allFeatures[p] = suggestions'[i].feature
              /\ i < j => \A p \in FirstOfKey(i), r \in FirstOfKey(j) : p < r ]_vars

\* the store holds one matching feature twice, after a repeated change
\* signal, and the list shown for the text in the box holds it once
C5_Witness ==
    /\ suggestionsDisplay = "block"
    /\ selectedFeature = NoFeature
    /\ bubbling = "none"
    /\ \E p, r \in 1..Len(allFeatures) :
          /\ p < r
          /\ allFeatures[p] = allFeatures[r]
          /\ Cardinality({i \in 1..Len(suggestions) :
                             /\ suggestions[i].kind = "item"
                             /\ suggestions[i].feature = allFeatures[p]}) = 1

\* C11: in every reachable state a feature is selected exactly when the
\* info panel is open, and nothing is highlighted while the panel is closed.
C11_SelectedIffPanelOpen ==
    /\ (selectedFeature # NoFeature) <=> infoPanelOpen
    /\ ~infoPanelOpen => Highlighted = {}

\* C12: event containment.  A click inside the info panel (not on its close
\* button) or inside the layer controls never reaches the document
\* listeners, and leaves both panels' open state, the selection and the
\* highlight as they were.
C12_PanelClickContained ==
    [][ \A target \in PanelTargets :
           PanelClick(target)
           => /\ bubbling' = "none"
              /\ UNCHANGED << infoPanelOpen, layerControlsOpen, selectedFeature,
                              featureStyle >> ]_vars

\* the info panel is open on a highlighted selection and no click is in
\* flight: a click inside the panel can happen here
C12_Witness ==
    /\ infoPanelOpen
    /\ selectedFeature # NoFeature
    /\ Highlighted = {selectedFeature}
    /\ bubbling = "none"

\* the document listeners are handling a search-button click that selected
\* nothing
SearchClickAtDocument ==
    DocumentClick /\ bubbling = "searchButton" /\ ~isClickOnFeature

\* what the outside-click transition leaves of the panels and the selection
OutsideClickPost ==
    /\ ~infoPanelOpen'
    /\ ~layerControlsOpen'
    /\ infoPanelOpen => (selectedFeature' = NoFeature /\ HighlightedAfter = {})
    /\ ~infoPanelOpen => UNCHANGED << selectedFeature, featureStyle >>
    /\ UNCHANGED allFeatures

C14_EmptyKeyUpClearsAndHides ==
    [][ (KeyUp /\ Trim(searchBoxValue) = << >>)
        => (suggestions' = << >> /\ suggestionsDisplay' = "none") ]_vars

\* the box has been emptied while the list, filled by an earlier keyup, is
\* still shown
C14_Witness ==
    /\ Trim(searchBoxValue) = << >>
    /\ suggestions # << >>
    /\ suggestionsDisplay = "block"
    /\ bubbling = "none"

\* the search of the box's trimmed text ends in performSearch's no-match
\* branch
SearchFindsNothing ==
    /\ Trim(searchBoxValue) # << >>
    /\ performSearch(props, srcFeatures, Trim(searchBoxValue)).kind = "nomatch"

\* C15: when a search-button click with a non-empty query matches no
\* feature, the suggestion list is visible and holds a no-results message
\* once the click has been fully handled.
C15_NoMatchMessageVisible ==
    [][ (SearchClickAtDocument /\ SearchFindsNothing)
        => /\ suggestionsDisplay' = "block"
           /\ Messages(suggestions') # {} ]_vars

PolicyZoom(bag, default) ==
    LET type == FeatureGet(bag, K_type)
    IN  IF type.t = "str" /\ ToLower(type.s) = T_data_center THEN 15
        ELSE IF type.t = "str" /\ ToLower(type.s) = T_punto THEN 13
        ELSE default

\* the step requests a camera fit with max zoom z
FitRequested(z) ==
    /\ Len(moveendListeners') = Len(moveendListeners) + 1
    /\ lastFit'.maxZoom = z

\* C17: every selection of a feature with a geometry requests a fit whose
\* max zoom is 15 for type "data center", 13 for "punto de aterrizaje" (in
\* any letter case) and otherwise, a missing type included, 16 when selected
\* by a map click and 14 when selected by a search.
C17_MaxZoomPolicy ==
    [][ /\ ( /\ \E hits \in Hits, w \in Widths : MapClick(hits, w)
             /\ isClickOnFeature'
             /\ HasGeometry(selectedFeature') )
           => FitRequested(PolicyZoom(props[selectedFeature'], 16))
        /\ ( /\ \E w \in Widths : SearchButtonClick(w)
             /\ isClickOnFeature'
             /\ HasGeometry(selectedFeature') )
           => FitRequested(PolicyZoom(props[selectedFeature'], 14)) ]_vars

\* number of entries of the store that are feature f
Occurrences(f, store) == Cardinality({i \in 1..Len(store) : store[i] = f})

\* C18: the Feature Store starts empty and is append-only: whatever it held
\* before a step is a prefix of what it holds after.
C18_StoreAppendOnly ==
    /\ allFeatures = << >>
    /\ [][IsPrefix(allFeatures, allFeatures')]_vars

\* the store has been appended to by the sources of two layers
C18_Witness ==
    \E i, j \in 1..Len(allFeatures) :
        /\ i < j
        /\ LayerOf(allFeatures[i]) # LayerOf(allFeatures[j])

\* C19: a change signal seen in state "ready" appends the whole feature set
\* of its layer's source, once; a signal seen in another state appends
\* nothing; the load of a layer leaves each of its features in the store
\* exactly once.
C19_ReadySignalAppendsOnce ==
    [][ \A l \in Layers :
          /\ \A st \in SourceStates :
                SourceChange(l, st)
                => allFeatures' = IF st = "ready"
                                  THEN allFeatures \o srcFeatures[l]
                                  ELSE allFeatures
          /\ LoadLayer(l)
             => /\ allFeatures' = allFeatures \o LayerFeatures(l)
                /\ \A i \in 1..Len(LayerFeatures(l)) :
                      Occurrences(LayerFeatures(l)[i], allFeatures') = 1 ]_vars

\* a second ready signal of a loaded source has appended its features again
C19_Witness ==
    \E l \in Layers :
        /\ srcFeatures[l] # << >>
        /\ \A i \in 1..Len(srcFeatures[l]) :
              Occurrences(srcFeatures[l][i], allFeatures) = 2

\* C20: the panel of a selected feature never holds an item for one of its
\* properties whose key is name, type, shape, color, size, opacity, geometry,
\* width, lineDash or id, whatever that property's value.
C20_ExcludedKeysNeverShown ==
    selectedFeature # NoFeature
    => \A i \in 1..Len(panelContent), j \in 1..Len(props[selectedFeature]) :
          ( /\ panelContent[i].el = "item"
            /\ props[selectedFeature][j].k \in excludedKeys )
          => panelContent[i].label # TranslatedKey(props[selectedFeature][j].k)

\* the value a heading shows for the property key of a bag: the property's
\* value when the bag holds one that is not null, empty or 0, the literal
\* otherwise
HeadingText(bag, key, literal) ==
    LET present == {i \in 1..Len(bag) : bag[i].k = key /\ Truthy(bag[i].v)}
    IN  IF present # {} THEN bag[CHOOSE i \in present : TRUE].v
        ELSE Str(literal)

ElementsOf(content, kind) == {i \in 1..Len(content) : content[i].el = kind}

\* C21: the panel of a selected feature holds exactly one title and one
\* subtitle: the title is the name property, or "Información del Elemento"
\* when the name is absent or empty; the subtitle is the type property, or
\* "Elemento"; also for a feature with no other property or none at all.
C21_OneTitleOneSubtitle ==
    selectedFeature # NoFeature
    => LET bag == props[selectedFeature]
       IN  /\ Cardinality(ElementsOf(panelContent, "h2")) = 1
           /\ Cardinality(ElementsOf(panelContent, "h4")) = 1
           /\ panelContent[1] =
                 [el |-> "h2", text |-> HeadingText(bag, K_name, TitleFallback)]
           /\ panelContent[2] =
                 [el |-> "h4", text |-> HeadingText(bag, K_type, SubtitleFallback)]

\* a feature without any property is selected: its panel holds the two
\* headings and nothing else
C21_Witness ==
    /\ selectedFeature = 1
    /\ props[1] = << >>
    /\ Len(panelContent) = 2

\* no feature holds a number under a searched key: every searched field is a
\* string, null or missing
SearchedFieldsAreText ==
    \A f \in FeatureIds : \A i \in 1..Len(props[f]) :
        props[f][i].k \in SearchedKeys => props[f][i].v.t # "num"

\* some searched property the bag holds contains q
SomeFieldContains(bag, q) ==
    \E i \in 1..Len(bag) : bag[i].k \in SearchedKeys /\ ValueContains(bag[i].v, q)

\* C22: missing properties never cause a failure.  With features that lack
\* any of the searched properties, the keyup listener runs to its end (the
\* list is shown and holds entries or the no-results message) and lists only
\* features one of whose present fields contains the query; the search runs
\* to its end (it selects a feature or appends its message), selects only a
\* feature one of whose present fields contains the term, and the panel
\* shows the formatter's headings with the fallback for a missing name.
C22_MissingPropertiesNeverFail ==
    [][ (SearchedFieldsAreText /\ Trim(searchBoxValue) # << >>)
        => /\ KeyUp
              => /\ suggestions' # << >>
                 /\ suggestionsDisplay' = "block"
                 /\ \A f \in RenderedAfter : SomeFieldContains(props[f], SuggestTerm)
           /\ (\E w \in Widths : SearchButtonClick(w))
              => /\ isClickOnFeature' \/ Len(suggestions') = Len(suggestions) + 1
                 /\ isClickOnFeature'
                    => /\ SomeFieldContains(props[selectedFeature'], SearchedTerm)
                       /\ panelContent'[1].text =
                             HeadingText(props[selectedFeature'], K_name,
                                         TitleFallback) ]_vars

\* a stored feature without any property has been passed over by a keyup
\* that listed another feature
C22_Witness ==
    /\ SearchedFieldsAreText
    /\ \E p \in 1..Len(allFeatures) : props[allFeatures[p]] = << >>
    /\ suggestionsDisplay = "block"
    /\ Rendered # {}
    /\ bubbling = "none"

\* C23: a click on the start button or on the back button resets the view's
\* center and zoom and leaves all four layers visible and all four
\* checkboxes checked, whatever was toggled before.
C23_BothButtonsReset ==
    [][ (StartClick \/ BackClick)
        => /\ view' = StartView
           /\ \A l \in Layers : layerVisible'[l] /\ checkboxChecked'[l] ]_vars

\* C7: stale-continuation race.  No step but the moveend signal removes a
\* registered apply-highlight callback, so the callback of selection A
\* survives the selection of B; at the signal every callback runs whenever
\* some feature is selected, whoever it was registered for, and sets on the
\* current selection the highlight built with its own layer's style function
\* (the last callback that ran decides the style; a style function that
\* raises ends the dispatch).
C7_StaleContinuationRuns ==
    [][ /\ (~MoveEnd => IsPrefix(moveendListeners, moveendListeners'))
        /\ ( ( /\ MoveEnd
               /\ selectedFeature # NoFeature
               /\ \E i \in 1..Len(moveendListeners) :
                     moveendListeners[i].registeredFor # selectedFeature )
             => LET n == Len(moveendListeners)
                    raising == {i \in 1..n :
                                  LayerStyleFunction(moveendListeners[i].layer,
                                                     selectedFeature).threw}
                    stop == IF raising = {} THEN n + 1
                            ELSE CHOOSE i \in raising : \A j \in raising : i <= j
                IN  /\ moveendListeners' = SubSeq(moveendListeners, stop + 1, n)
                    /\ featureStyle'[selectedFeature] =
                          IF stop = 1 THEN featureStyle[selectedFeature]
                          ELSE combinedStyles(moveendListeners[stop - 1].layer,
                                              selectedFeature) ) ]_vars

\* feature 3 carries the glow and the point layer's style: the callback
\* registered for feature 1 ran while feature 3 was the selection
C7_Witness ==
    /\ selectedFeature = 3
    /\ featureStyle[3] = combinedStyles("point", 3)
    /\ moveendListeners = << >>

\* a selecting handler has just run: only they raise the flag
SelectStep == bubbling = "none" /\ isClickOnFeature'

\* C8: deferred highlight.  The selecting handler leaves no feature
\* highlighted, and no step other than the moveend signal adds a highlight:
\* from a selection to the first moveend after it nothing is highlighted.
C8_HighlightDeferred ==
    [][ /\ (SelectStep => HighlightedAfter = {})
        /\ (~MoveEnd => HighlightedAfter \subseteq Highlighted) ]_vars

\* a feature is selected, its callback is waiting and nothing is highlighted
C8_Witness ==
    /\ selectedFeature = 2
    /\ bubbling = "none"
    /\ \E i \in 1..Len(moveendListeners) : moveendListeners[i].registeredFor = 2
    /\ Highlighted = {}
    /\ infoPanelOpen

\* what the Idle/Selected -> Selected transition establishes for feature f
SelectedPost(f) ==
    /\ selectedFeature' = f
    /\ panelContent' = getFormattedFeatureInfo(props[f])
    /\ infoPanelOpen'
    /\ ~layerControlsOpen'

\* C9: when the handler of a map click that hits a feature, or of a search
\* that finds one, returns, that feature is the selection, the panel shows
\* its formatted information, the info panel is open and the layer-control
\* panel is closed, whatever the state before.
C9_SelectedPostcondition ==
    [][ /\ \A hits \in AllHits, w \in Widths :
              (MapClick(hits, w) /\ hits # << >>) => SelectedPost(hits[Len(hits)])
        /\ \A w \in Widths :
              ( /\ SearchButtonClick(w)
                /\ Trim(searchBoxValue) # << >>
                /\ \E i \in 1..Len(ScanOrder(srcFeatures)) :
                      SearchMatch(props[ScanOrder(srcFeatures)[i].f],
                                  Trim(searchBoxValue)) = "true" )
              => \E f \in Loaded : SelectedPost(f) /\ isClickOnFeature' ]_vars

\* a search has just selected feature 3 while the layer controls were open
\* on a wide viewport (the toggle button is still hidden)
C9_Witness ==
    /\ bubbling = "searchButton"
    /\ isClickOnFeature
    /\ selectedFeature = 3
    /\ toggleDisplay = "none"
    /\ ~layerControlsOpen

IdlePost ==
    /\ selectedFeature' = NoFeature
    /\ HighlightedAfter = {}
    /\ ~infoPanelOpen'

C24_OwnerLayerStyle ==
    \A f \in FeatureIds :
        featureStyle[f] # NoStyle
            => featureStyle[f] = combinedStyles(LayerOf(f), f)

\* the step is a selection made on a viewport of width w, by a map click or
\* by a search, that requests a camera fit
FitRequestedAt(w) ==
    /\ \/ \E hits \in Hits : MapClick(hits, w)
       \/ SearchButtonClick(w)
    /\ Len(moveendListeners') = Len(moveendListeners) + 1

\* padding [top, right, bottom, left] that reserves the panel's height on
\* the bottom edge (narrow) or the panel's width on the right edge
ReservesPanelSpace(padding, narrow) ==
    /\ padding[1] = 50
    /\ padding[4] = 50
    /\ IF narrow
       THEN padding[2] = 50 /\ padding[3] = InfoPanelOffset.height + 20
       ELSE padding[3] = 50 /\ padding[2] = InfoPanelOffset.width + 20

\* C25 as stated: the fit requested by a map click or a search reserves the
\* panel's height + 20 on the bottom edge on viewports narrower than 768 and
\* the panel's width + 20 on the side on viewports of width 768 or more, 50
\* on the other edges.
C25_FitPaddingBelowBreakpoint ==
    [][ \A w \in ZoomWidths :
            FitRequestedAt(w) => ReservesPanelSpace(lastFit'.padding, w < 768) ]_vars

\* C25, amended: the bottom edge is the reserved one on viewports of width
\* 768 or less, the side on viewports wider than 768; map click and search
\* request the same padding for the same viewport and panel size.
C25_FitPaddingUpToBreakpoint ==
    [][ \A w \in ZoomWidths :
            FitRequestedAt(w) => ReservesPanelSpace(lastFit'.padding, w <= 768) ]_vars

\* a fit that reserves the bottom edge is being animated for the selection
C25_Witness ==
    /\ selectedFeature # NoFeature
    /\ lastFit # NoFit
    /\ lastFit.padding = << 50, 50, InfoPanelOffset.height + 20, 50 >>
    /\ \E i \in 1..Len(moveendListeners) :
          moveendListeners[i].registeredFor = selectedFeature

\* what an element of the panel shows: its kind and the value it carries
Shown(e) ==
    IF e.el = "img" THEN << "img", e.src >>
    ELSE IF e.el = "a" THEN << "a", e.href, e.text >>
    ELSE IF e.el = "item" THEN << "item", e.value >>
    ELSE << e.el >>

\* the items the Formatter's rules give the property p: none for an excluded
\* key or a falsy value, an image for an image key with an http string,
\* none for an image key with another value, a "Ver Referencia" hyperlink
\* for a reference_link key, a label/value line for any other key
ItemsFor(p) ==
    LET key == ToLower(p.k)
    IN  IF key \in excludedKeys \/ p.v \in {Null, Undefined, Str(<< >>), Num(0)}
        THEN << >>
        ELSE IF key = K_image
        THEN IF p.v.t = "str" /\ Len(p.v.s) >= 4 /\ SubSeq(p.v.s, 1, 4) = HttpPrefix
             THEN << << "img", p.v >> >>
             ELSE << >>
        ELSE IF key = K_reference_link
        THEN << << "a", p.v, LinkText >> >>
        ELSE << << "item", p.v >> >>

RECURSIVE BodyFor(_)
BodyFor(bag) ==
    IF bag = << >> THEN << >> ELSE ItemsFor(Head(bag)) \o BodyFor(Tail(bag))

\* the panel's elements after the title and the subtitle are the items of
\* the selected feature's properties, in the properties' order
BodyAsSpecified ==
    selectedFeature # NoFeature
    => LET body == SubSeq(panelContent, 3, Len(panelContent))
       IN  [i \in 1..Len(body) |-> Shown(body[i])] = BodyFor(props[selectedFeature])

\* C26: Formatter body.  For every property whose lowercased key is not
\* excluded the panel holds one item if the value is truthy and none if it
\* is null, empty or 0: an image element for an image key whose value is a
\* string starting with "http", nothing for an image key with any other
\* value, a hyperlink labelled "Ver Referencia" for a reference_link key, a
\* label/value line otherwise; formatting leaves the properties as they are.
C26_FormatterBody ==
    [][ props' = props /\ BodyAsSpecified' ]_vars

\* the panel shows a feature whose image is a URL and whose reference link
\* is set: title, subtitle, image and hyperlink
C26_Witness ==
    /\ selectedFeature = 1
    /\ props[1] = << [k |-> K_image, v |-> Str(<<"h", "t", "t", "p", ":">>)],
                     [k |-> K_reference_link, v |-> Str(<<"h", "t", "t", "p", ":">>)] >>
    /\ Len(panelContent) = 4
    /\ panelContent[3].el = "img"
    /\ panelContent[4].el = "a"

\* C27: a click on the suggestion entry rendered for feature F selects F:
\* when its listener returns the selection is F itself, not another feature
\* one of whose searched fields contains F's name nor another feature of the
\* same name, whatever the store holds.
C27_SuggestionSelectsItsFeature ==
    [][ \A i \in 1..Len(suggestions), w \in Widths :
            SuggestionClick(i, w) => selectedFeature' = suggestions[i].feature ]_vars

\* C28: with the listeners of both blocks counted, a click on the search
\* button or on a suggestion entry through which the search selects a
\* feature leaves the info panel open once every listener has handled it.
C28_PanelOpenAfterSearchClick ==
    [][ ( /\ DocumentClick
          /\ firstBlockTarget = "document"
          /\ bubbling \in {"searchButton", "suggestion"}
          /\ isClickOnFeature )
        => infoPanelOpen' ]_vars

\* C29: with both listeners of the toggle button counted, one click flips
\* the layer controls once: closed before, they are open and the button is
\* hidden after; open before, they are closed and the button is shown.
\* When the second listener starts the first one has flipped the panel, so
\* the panel was open before the click iff it is closed now.
C29_ToggleFlipsOnce ==
    [][ /\ FirstToggleClick => layerControlsOpen' = ~layerControlsOpen
        /\ SecondToggleClick
              => /\ layerControlsOpen' = layerControlsOpen
                 /\ toggleDisplay' = IF layerControlsOpen' THEN "none" ELSE "block"
        /\ ( /\ FirstDocumentClick \/ DocumentClick
             /\ bubbling = "toggleButton" )
              => UNCHANGED << layerControlsOpen, toggleDisplay >> ]_vars

\* C30: a selected feature with a geometry carries the highlight from the
\* moveend signal that fires while it is the selection, and a highlighted
\* feature keeps the highlight through every event but those that clear the
\* selection or select again: a step that removes a highlight ends with no
\* selection or is the step of a selecting handler.
C30_HighlightStays ==
    [][ /\ ( /\ MoveEnd
             /\ selectedFeature # NoFeature
             /\ HasGeometry(selectedFeature) )
           => /\ selectedFeature' = selectedFeature
              /\ featureStyle'[selectedFeature] # NoStyle
        /\ \A f \in FeatureIds :
              (featureStyle[f] # NoStyle /\ featureStyle'[f] = NoStyle)
              => (selectedFeature' = NoFeature \/ SelectStep) ]_vars

\* feature 1 is still selected and highlighted after a click on the toggle
\* button has closed the info panel and opened the layer controls
C30_Witness ==
    /\ selectedFeature = 1
    /\ featureStyle[1] # NoStyle
    /\ ~infoPanelOpen
    /\ layerControlsOpen
    /\ bubbling = "none"

\* C31: panel mutual exclusion.  Through every sequence of toggle button
\* clicks, selections, outside clicks and close actions the selection
\* controller handles, the info panel and the layer controls are never open
\* together.
C31_PanelsNeverBothOpen == ~(infoPanelOpen /\ layerControlsOpen)

\* a map click has selected a feature while the layer controls were open: it
\* opened the info panel and closed the controls, whose button is still
\* hidden
C31_Witness ==
    /\ bubbling = "map"
    /\ infoPanelOpen
    /\ ~layerControlsOpen
    /\ toggleDisplay = "none"

\* C32: suggest and findFirst run to their end for every feature whose
\* property values are strings, numbers or null: on a non-empty query the
\* keyup listener leaves the list shown with entries or its no-results
\* message, and the search selects a feature or appends its message, also
\* when a feature holds a non-zero number under a searched key.
C32_NumbersNeverAbort ==
    [][ Trim(searchBoxValue) # << >>
        => /\ KeyUp => (suggestions' # << >> /\ suggestionsDisplay' = "block")
           /\ (\E w \in Widths : SearchButtonClick(w))
              => (isClickOnFeature' \/ Len(suggestions') = Len(suggestions) + 1) ]_vars

\* the callback registered last
LastListener == moveendListeners[Len(moveendListeners)]

\* C33: map-click tie-break.  When the hit-test reports several features the
\* selection is the last one reported, and the callback the click registers
\* holds the layer reported with that same feature; when the signal fires
\* while the feature of the last callback is still the selection, its
\* highlight is the glow followed by the styles of that layer.
C33_LastHitAndItsLayer ==
    [][ /\ (bubbling = "none" /\ bubbling' = "map" /\ isClickOnFeature')
           => \A hits \in Hits, w \in Widths :
                 (hits # << >> /\ MapClick(hits, w))
                 => LET last == hits[Len(hits)]
                    IN  /\ selectedFeature' = last
                        /\ moveendListeners' =
                              Append(moveendListeners,
                                     [layer |-> LayerOf(last), registeredFor |-> last])
        /\ ( /\ MoveEnd
             /\ selectedFeature # NoFeature
             /\ LastListener.registeredFor = selectedFeature )
           => featureStyle'[selectedFeature]
                 = combinedStyles(LastListener.layer, selectedFeature) ]_vars

\* a map click has selected feature 2 of the data center layer while the
\* callback of feature 1 of the point layer was still waiting
C33_Witness ==
    /\ bubbling = "map"
    /\ selectedFeature = 2
    /\ Len(moveendListeners) = 2
    /\ moveendListeners[1] = [layer |-> "point", registeredFor |-> 1]
    /\ moveendListeners[2] = [layer |-> "dataCenter", registeredFor |-> 2]

\* C34: layer visibility tracks its checkbox.  From the first start click
\* on, through checkbox changes and start and back clicks, each of the four
\* layers is visible iff its checkbox is checked, and a change of one
\* checkbox leaves the other three layers and checkboxes as they were.
C34_VisibilityTracksCheckbox ==
    [][ /\ \A l \in Layers : layerVisible'[l] = checkboxChecked'[l]
        /\ \A l \in Layers :
              CheckboxChange(l)
              => /\ layerVisible'[l] = ~layerVisible[l]
                 /\ \A m \in Layers \ {l} :
                       /\ layerVisible'[m] = layerVisible[m]
                       /\ checkboxChecked'[m] = checkboxChecked[m] ]_vars

\* back on the map page with the cable layer switched off and the other
\* three layers shown
C34_Witness ==
    /\ page.map
    /\ ~checkboxChecked["cable"]
    /\ ~layerVisible["cable"]
    /\ \A l \in Layers \ {"cable"} : layerVisible[l] /\ checkboxChecked[l]

\* the entries of a list, without its messages
EntriesOf(list) == SelectSeq(list, LAMBDA e : e.kind = "item")

\* C35: suggestions are never stale.  Whenever the suggestion list is shown
\* and holds entries, they are the deduplicated matches of the box's current
\* trimmed text against the current Feature Store, whatever event came last
\* (a click on the search box, which empties it, included).
C35_SuggestionsNeverStale ==
    (suggestionsDisplay = "block" /\ EntriesOf(suggestions) # << >>)
    => EntriesOf(suggestions)
          = EntriesOf(SuggestList(props, allFeatures, SuggestTerm))

====
